---- MODULE Spec2Model ----
(***************************************************************************)
(* Model of src/src/pipewire/remote.c: the remote connection state machine *)
(* (struct pw_remote) and the exported client node session (struct         *)
(* node_data): memory registry, per-port buffer tables, transport          *)
(* attachment and the control-event handlers.                              *)
(***************************************************************************)
EXTENDS Integers, Sequences, FiniteSets, TLC

\* ---------------------------------------------------------------- bounds
MaxPorts == 1       \* max_input_ports and max_output_ports of a transport area
MaxMem == 2         \* most entries appended to mem_ids between two cleans
MaxRing == 2        \* most messages waiting in the inbound ring of the transport
MaxTypes == 1       \* most entries of the remote's type map

\* ------------------------------------------------------------- constants
\* uint32_t values are written as their 32-bit two's complement reading, so
\* that 0xffffffff is -1 and r + 1, r - 1 are the arithmetic modulo 2^32
SPA_ID_INVALID == -1
sc_pagesize == 4096                   \* core->sc_pagesize
NULL == "NULL"

\* input domains
MemIds == {5, 6}                      \* memory ids the server announces
MemIdVals == MemIds \cup {SPA_ID_INVALID}
Fds == {1, 2}                         \* file descriptor numbers received
MemFlags == {0, 3}                    \* flags of a region: none, readable and writable
Seqs == {11}                          \* request sequence numbers
ErrTexts == {"e1", "e2"}              \* error strings of core error events
ErrFormats == {"e%d"}                 \* error strings with a conversion in them
Expansions == {"e0", "e7"}            \* what formatting "e%d" with no argument gives
Dirs == {"in", "out"}                 \* SPA_DIRECTION_INPUT / _OUTPUT

\* result codes (res): "0" stands for every non-negative result
Negative(res) == res # "0"

VARIABLES
  \* ---- struct pw_remote
  state,          \* remote->state
  error,          \* remote->error (NULL or the formatted text)
  core_proxy,     \* remote->core_proxy != NULL
  info,           \* remote->info != NULL
  proxy_list,     \* number of proxies on remote->proxy_list and in remote->objects,
                  \* the core proxy apart
  types,          \* number of entries of remote->types
  conn,           \* protocol client: "idle", "pending" (callback owed), "open"
  rcall,          \* the last remote operation: its return value, the state-changed
                  \* notifications and the sync reply it fired, the text of the
                  \* event, the calls of pw_remote_disconnect it made
  \* ---- struct node_data and what it owns
  trans,          \* data->trans: NULL or [max_input_ports, max_output_ports, inputs,
                  \* msgs: the messages waiting in the inbound ring]
  rtwritefd,      \* data->rtwritefd (0 in the zeroed user data of the proxy)
  rtsocket_source,\* data->rtsocket_source: NULL or [mask]
  mem_ids,        \* data->mem_ids: sequence of struct mem_id
  in_ports,       \* data->in_ports: sequence of struct port (slot i at i+1)
  out_ports,      \* data->out_ports
  out_node,       \* data->out_node.ports[SPA_DIRECTION_INPUT]: the port ids of the
                  \* entries of freed port arrays that are still linked in the list
  node,           \* the local pw_node: ports it has, io areas bound, buffers
  os,             \* the process: which descriptors are open, whether it faulted
  last_cmd,       \* Start/Pause handled last since the transport was attached;
                  \* "Starting" while the main thread is inside the Start branch
  ncall           \* the last event (control event, wake of the data loop, event of
                  \* the local node, write to the ring) and what its handler let out

rvars == <<state, error, core_proxy, info, proxy_list, types, conn, rcall>>
nvars == <<trans, rtwritefd, rtsocket_source, mem_ids, in_ports, out_ports, out_node,
           node, os, last_cmd, ncall>>
vars == <<state, error, core_proxy, info, proxy_list, types, conn, rcall,
          trans, rtwritefd, rtsocket_source, mem_ids, in_ports, out_ports, out_node,
          node, os, last_cmd, ncall>>

\* =====================================================================
\* Connection state machine (struct pw_remote)
\* =====================================================================

\* The remote as a record, so that the helpers compose as the C calls do.
Remote == [state |-> state, error |-> error, core_proxy |-> core_proxy,
           notified |-> <<>>, text |-> NULL, calls |-> <<>>]

\* the update without the comparison of old and new state
pw_remote_update_state_noguard(r, st, text) ==
  [r EXCEPT !.state = st, !.error = text,
            !.notified = Append(r.notified, <<r.state, st, text>>)]

\* pw_remote_update_state(remote, st, fmt, ...): text is the formatted
\* message, NULL when fmt is NULL or vasprintf failed.
pw_remote_update_state(r, st, text) ==
  IF r.state # st
  THEN [r EXCEPT !.state = st, !.error = text,
                 !.notified = Append(r.notified, <<r.state, st, text>>)]
  ELSE r

\* vasprintf(&remote->error, fmt, ...) < 0 leaves remote->error NULL
Formatted(text, fmt_ok) == IF fmt_ok THEN text ELSE NULL

\* a do_connect that reports the failure without moving to ERROR
do_connect_quiet(r, proxy_ok, fmt_ok) ==
  IF proxy_ok
  THEN [r |-> [r EXCEPT !.core_proxy = TRUE], ret |-> "0", conn |-> "open"]
  ELSE [r |-> r, ret |-> "-ENOMEM", conn |-> "idle"]

\* do_connect: pw_proxy_new may fail (proxy_ok = FALSE)
do_connect(r, proxy_ok, fmt_ok) ==
  IF proxy_ok
  THEN [r |-> [r EXCEPT !.core_proxy = TRUE], ret |-> "0", conn |-> "open"]
  ELSE [r |-> pw_remote_update_state(r, "ERROR",
                   Formatted("can't connect: no memory", fmt_ok)),
        ret |-> "-ENOMEM", conn |-> "idle"]

\* done_connect(data, result)
done_connect(r, result, proxy_ok, fmt_ok) ==
  IF Negative(result)
  THEN [r |-> pw_remote_update_state(r, "ERROR", Formatted("can't connect", fmt_ok)),
        ret |-> result, conn |-> "idle"]
  ELSE do_connect(r, proxy_ok, fmt_ok)

SetRemote(r, c, op, ret, sync) ==
  /\ state' = r.state
  /\ error' = r.error
  /\ core_proxy' = r.core_proxy
  /\ conn' = c
  /\ rcall' = [op |-> op, ret |-> ret, notified |-> r.notified, sync |-> sync,
               text |-> r.text, calls |-> r.calls]
  /\ UNCHANGED nvars

\* pw_remote_connect: pw_protocol_client_connect fails (res < 0), or accepts
\* and runs done_connect before returning (sync) or later (DoneConnect).
pw_remote_connect ==
  \E res \in {"0", "-ECONNREFUSED"}, sync \in BOOLEAN,
     result \in {"0", "-ECONNREFUSED"}, proxy_ok \in BOOLEAN, fmt_ok \in BOOLEAN :
    LET r1 == pw_remote_update_state(Remote, "CONNECTING", NULL) IN
    /\ conn # "pending"
    /\ UNCHANGED <<info, proxy_list, types>>
    /\ IF Negative(res)
       THEN SetRemote(pw_remote_update_state(r1, "ERROR",
                          Formatted("connect failed", fmt_ok)),
                      "idle", "connect", res, <<>>)
       ELSE IF sync
            THEN LET d == done_connect(r1, result, proxy_ok, fmt_ok) IN
                 SetRemote(d.r, d.conn, "connect",
                           IF d.r.state = "ERROR" THEN "-EIO" ELSE "0", <<>>)
            ELSE SetRemote(r1, "pending", "connect",
                           IF r1.state = "ERROR" THEN "-EIO" ELSE "0", <<>>)

\* the connect callback arriving after pw_remote_connect returned
DoneConnect ==
  \E result \in {"0", "-ECONNREFUSED"}, proxy_ok \in BOOLEAN, fmt_ok \in BOOLEAN :
    LET d == done_connect(Remote, result, proxy_ok, fmt_ok) IN
    /\ conn = "pending"
    /\ UNCHANGED <<info, proxy_list, types>>
    /\ SetRemote(d.r, d.conn, "done_connect", d.ret, <<>>)

pw_remote_connect_fd ==
  \E res \in {"0", "-EBADF"}, proxy_ok \in BOOLEAN, fmt_ok \in BOOLEAN :
    LET r1 == pw_remote_update_state(Remote, "CONNECTING", NULL) IN
    /\ conn # "pending"
    /\ UNCHANGED <<info, proxy_list, types>>
    /\ IF Negative(res)
       THEN SetRemote(pw_remote_update_state(r1, "ERROR",
                          Formatted("connect_fd failed", fmt_ok)),
                      "idle", "connect_fd", res, <<>>)
       ELSE LET d == do_connect(r1, proxy_ok, fmt_ok) IN
            SetRemote(d.r, d.conn, "connect_fd", d.ret, <<>>)

\* a done event that connects whatever its seq
core_event_done_any ==
  \E seq \in {0} \cup Seqs :
    /\ core_proxy
    /\ UNCHANGED <<info, proxy_list, types>>
    /\ SetRemote(pw_remote_update_state(Remote, "CONNECTED", NULL),
                 conn, "done", "0", <<seq>>)

\* a done event that surfaces no sync reply
core_event_done_quiet ==
  \E seq \in {0} \cup Seqs :
    /\ core_proxy
    /\ UNCHANGED <<info, proxy_list, types>>
    /\ SetRemote(IF seq = 0 THEN pw_remote_update_state(Remote, "CONNECTED", NULL)
                            ELSE Remote,
                 conn, "done", "0", <<>>)

\* core_event_done(data, seq): events arrive only through the core proxy
core_event_done ==
  \E seq \in {0} \cup Seqs :
    /\ core_proxy
    /\ UNCHANGED <<info, proxy_list, types>>
    /\ SetRemote(IF seq = 0 THEN pw_remote_update_state(Remote, "CONNECTED", NULL)
                            ELSE Remote,
                 conn, "done", "0", <<seq>>)

\* core_event_error(data, id, res, error, ...): error is handed on as the
\* format string, with no arguments. A conversion in it reads an argument
\* that was not passed, and expands to whatever is found there.
core_event_error ==
  \E text \in ErrTexts \cup ErrFormats, fmt_ok \in BOOLEAN :
    \E out \in IF text \in ErrFormats THEN Expansions ELSE {text} :
      /\ core_proxy
      /\ UNCHANGED <<info, proxy_list, types>>
      /\ SetRemote(pw_remote_update_state([Remote EXCEPT !.text = text], "ERROR",
                                          Formatted(out, fmt_ok)),
                   conn, "error", "0", <<>>)

\* core_event_info
core_event_info ==
  /\ core_proxy
  /\ info' = TRUE
  /\ UNCHANGED <<proxy_list, types>>
  /\ SetRemote(Remote, conn, "info", "0", <<>>)

\* pw_remote_export creates one proxy on the remote's proxy list
ExportProxy ==
  /\ core_proxy
  /\ proxy_list < 1
  /\ proxy_list' = proxy_list + 1
  /\ UNCHANGED <<info, types>>
  /\ SetRemote(Remote, conn, "export", "0", <<>>)

\* core_event_update_types: the server announces types
core_event_update_types ==
  /\ core_proxy
  /\ types < MaxTypes
  /\ types' = types + 1
  /\ UNCHANGED <<info, proxy_list>>
  /\ SetRemote(Remote, conn, "update_types", "0", <<>>)

\* what pw_remote_disconnect does to the remote itself
disconnect(r) ==
  pw_remote_update_state([r EXCEPT !.core_proxy = FALSE,
                                   !.calls = Append(@, "disconnect")],
                         "UNCONNECTED", NULL)

\* a disconnect that keeps the server info
pw_remote_disconnect_keep ==
  /\ proxy_list' = 0
  /\ types' = 0
  /\ info' = info
  /\ SetRemote(disconnect(Remote), "idle", "disconnect", "0", <<>>)

\* pw_remote_disconnect: every proxy is destroyed, the maps are cleared, the
\* info is freed
pw_remote_disconnect ==
  /\ proxy_list' = 0
  /\ types' = 0
  /\ info' = FALSE
  /\ SetRemote(disconnect(Remote), "idle", "disconnect", "0", <<>>)

\* pw_remote_steal_fd: the descriptor of the connection is returned
pw_remote_steal_fd ==
  /\ proxy_list' = 0
  /\ types' = 0
  /\ info' = FALSE
  /\ SetRemote(disconnect(Remote), "idle", "steal_fd", "0", <<>>)

\* pw_remote_destroy; the remote is freed, and what follows is a remote that
\* pw_remote_new returned
pw_remote_destroy ==
  LET r == IF state # "UNCONNECTED" THEN disconnect(Remote) ELSE Remote IN
  /\ proxy_list' = 0
  /\ types' = 0
  /\ info' = FALSE
  /\ SetRemote([r EXCEPT !.state = "UNCONNECTED", !.error = NULL,
                         !.core_proxy = FALSE],
               "idle", "destroy", "0", <<>>)

RemoteInit ==
  /\ state = "UNCONNECTED"
  /\ error = NULL
  /\ core_proxy = FALSE
  /\ info = FALSE
  /\ proxy_list = 0
  /\ types = 0
  /\ conn = "idle"
  /\ rcall = [op |-> "new", ret |-> "0", notified |-> <<>>, sync |-> <<>>,
              text |-> NULL, calls |-> <<>>]

RemoteNext ==
  \/ pw_remote_connect
  \/ DoneConnect
  \/ pw_remote_connect_fd
  \/ core_event_done
  \/ core_event_error
  \/ core_event_info
  \/ ExportProxy
  \/ core_event_update_types
  \/ pw_remote_disconnect
  \/ pw_remote_steal_fd
  \/ pw_remote_destroy

\* =====================================================================
\* Exported node session (struct node_data)
\* =====================================================================

\* The session as one record, so that the helpers compose as the C calls do.
World == [trans |-> trans, rtwritefd |-> rtwritefd, src |-> rtsocket_source,
          mem |-> mem_ids, inp |-> in_ports, outp |-> out_ports, stale |-> out_node,
          node |-> node, os |-> os, lost |-> FALSE]

NoTrans == [live |-> FALSE, max_input_ports |-> 0, max_output_ports |-> 0,
            inputs |-> <<>>, msgs |-> <<>>]
NoSource == [live |-> FALSE, mask |-> {}]
NoIo == [null |-> TRUE, mem |-> 0, start |-> 0, size |-> 0, valid |-> TRUE]
NullPtr == [null |-> TRUE, mem |-> 0, start |-> 0]

Ports(w, d) == IF d = "in" THEN w.inp ELSE w.outp
SetPort(w, d, p, port) ==
  IF d = "in" THEN [w EXCEPT !.inp[p + 1] = port]
              ELSE [w EXCEPT !.outp[p + 1] = port]

\* a fault of the process (NULL or wild pointer dereference, free of garbage)
Fault(w) == [w EXCEPT !.os.crashed = TRUE]

RECURSIVE find_mem_from(_, _, _)
find_mem_from(mem, id, i) ==
  IF i > Len(mem) THEN 0
  ELSE IF mem[i].id = id THEN i
  ELSE find_mem_from(mem, id, i + 1)

\* find_mem: the index of the first entry with that id, 0 for NULL
find_mem(mem, id) == find_mem_from(mem, id, 1)

\* pw_map_range_init(range, offset, size, page_size)
pw_map_range_init(offset, size) ==
  LET start == offset % sc_pagesize IN
  [start |-> start, offset |-> offset - start,
   size |-> ((start + size + sc_pagesize - 1) \div sc_pagesize) * sc_pagesize]

PW_MAP_RANGE_INIT == [start |-> 0, offset |-> 0, size |-> 0]

\* mmap of a descriptor: fails on -1 and on a closed descriptor, and may
\* fail otherwise (ok = FALSE)
MmapOk(w, fd, ok) == ok /\ fd # -1 /\ w.os.fd_open[fd]

\* a mem_map that maps the range asked for whether the region is mapped or not
mem_map_again(w, i, offset, size, ok) ==
  LET m == pw_map_range_init(offset, size) IN
  IF MmapOk(w, w.mem[i].fd, ok)
  THEN [w |-> [w EXCEPT !.mem[i].ptr = TRUE, !.mem[i].map = m],
        ptr |-> [null |-> FALSE, mem |-> i, start |-> m.start]]
  ELSE [w |-> [w EXCEPT !.mem[i].ptr = FALSE, !.mem[i].map = m], ptr |-> NullPtr]

\* mem_map(data, mid, offset, size): the pointer returned is NULL or
\* mid->ptr + mid->map.start
mem_map(w, i, offset, size, ok) ==
  IF ~w.mem[i].ptr
  THEN LET m == pw_map_range_init(offset, size) IN
       IF MmapOk(w, w.mem[i].fd, ok)
       THEN [w |-> [w EXCEPT !.mem[i].ptr = TRUE, !.mem[i].map = m],
             ptr |-> [null |-> FALSE, mem |-> i, start |-> m.start]]
       ELSE [w |-> [w EXCEPT !.mem[i].map = m], ptr |-> NullPtr]
  ELSE [w |-> w,
        ptr |-> [null |-> FALSE, mem |-> i, start |-> w.mem[i].map.start]]

\* mem_unmap(data, mid); an io area the local node was given inside the
\* mapping is no longer valid memory
mem_unmap(w, i) ==
  IF w.mem[i].ptr
  THEN [w EXCEPT !.mem[i].ptr = FALSE,
                 !.node.io = [d \in Dirs |->
                     IF ~w.node.io[d].null /\ w.node.io[d].mem = i
                     THEN [w.node.io[d] EXCEPT !.valid = FALSE]
                     ELSE w.node.io[d]]]
  ELSE w

\* close(fd): a close of a descriptor that is not open is recorded
Close(w, fd) ==
  IF w.os.fd_open[fd]
  THEN [w EXCEPT !.os.fd_open[fd] = FALSE]
  ELSE [w EXCEPT !.os.bad_close = TRUE]

\* a clear that closes the descriptor whoever else holds it
clear_memid_always(w, i) ==
  IF w.mem[i].fd # -1
  THEN Close(mem_unmap([w EXCEPT !.mem[i].fd = -1, !.mem[i].id = SPA_ID_INVALID], i),
             w.mem[i].fd)
  ELSE w

\* clear_memid(data, mid)
clear_memid(w, i) ==
  IF w.mem[i].fd # -1
  THEN LET fd == w.mem[i].fd
           w1 == [w EXCEPT !.mem[i].fd = -1, !.mem[i].id = SPA_ID_INVALID]
           has_ref == \E k \in 1..Len(w1.mem) : w1.mem[k].fd = fd
       IN IF ~has_ref THEN Close(mem_unmap(w1, i), fd) ELSE w1
  ELSE w

\* the decrement alone: --bid->mem[i]->ref
UnpinOne_keep(w, i) ==
  [w EXCEPT !.mem[i].ref = w.mem[i].ref - 1]

\* if (--bid->mem[i]->ref == 0) clear_memid(data, bid->mem[i]);
UnpinOne(w, i) ==
  LET ref == w.mem[i].ref - 1
      w1 == [w EXCEPT !.mem[i].ref = ref]
  IN IF ref = 0 THEN clear_memid(w1, i) ELSE w1

\* the inner loop of clear_buffers: for (i = 0; i < bid->n_mem; i++)
RECURSIVE Unpin(_, _)
Unpin(w, mem) ==
  IF mem = <<>> THEN w ELSE Unpin(UnpinOne(w, Head(mem)), Tail(mem))

\* The outer loop of clear_buffers. A slot whose mmap failed was never
\* written beyond ptr: bid->mem, n_mem and buf are what the array's memory
\* held. They read as zero (ub = "zero") or as garbage, which faults.
RECURSIVE ClearEntries(_, _, _)
ClearEntries(w, bids, ub) ==
  IF bids = <<>> THEN w
  ELSE LET bid == Head(bids) IN
       IF bid.uninit /\ ub # "zero" THEN Fault(w)
       ELSE ClearEntries(Unpin(w, bid.mem), Tail(bids), ub)

\* pw_port_use_buffers(port->port, bufs, n): dereferences the pw_port; the
\* local port holds the n buffers when it accepts them
pw_port_use_buffers(w, d, bound, n, res) ==
  IF ~bound THEN Fault(w)
  ELSE [w EXCEPT !.node.bufs[d] = IF Negative(res) THEN 0 ELSE n]

Max(a, b) == IF a > b THEN a ELSE b

\* a clear_buffers that releases nothing
clear_buffers_skip(w, d, p, ub) == w

\* clear_buffers(data, port)
clear_buffers(w, d, p, ub) ==
  LET port == Ports(w, d)[p + 1]
      w1 == pw_port_use_buffers(w, d, port.port, 0, "0")
      w2 == ClearEntries(w1, port.buffer_ids, ub)
  IN SetPort(w2, d, p, [port EXCEPT !.buffer_ids = <<>>,
                          !.init = Max(port.init, Len(port.buffer_ids))])

\* port_init(port); port->port is bound afterwards by client_node_transport
port_init == [port |-> FALSE, buffer_ids |-> <<>>, in_order |-> TRUE, init |-> 0]

\* the loop of clean_transport: pw_array_for_each(mid, &data->mem_ids)
RECURSIVE ClearAllMem(_, _)
ClearAllMem(w, i) ==
  IF i > Len(w.mem) THEN w ELSE ClearAllMem(clear_memid(w, i), i + 1)

MappedEntries(ports) ==
  \E k \in 1..Len(ports) : \E e \in 1..Len(ports[k].buffer_ids) :
    ports[k].buffer_ids[e].ptr

\* unhandle_socket: a blocking invoke of do_remove_source on the data loop
do_remove_source(w) == IF w.src.live THEN [w EXCEPT !.src = NoSource] ELSE w

\* The loops of clean_transport over the local node's ports: the graph ports
\* of the slots a local port is bound to are unlinked. The input side of
\* every other out_ports slot stays on the list of out_node when the array
\* is freed.
Unlinked(w) ==
  w.stale \cup {i - 1 : i \in {k \in 1..Len(w.outp) : ~w.outp[k].port}}

\* a clean that leaves data->trans as it is
clean_transport_keep(w) ==
  IF ~w.trans.live THEN w
  ELSE LET w0 == do_remove_source(w)
           w1 == [w0 EXCEPT !.stale = Unlinked(w0)]
           w2 == ClearAllMem(w1, 1)
       IN [w2 EXCEPT !.mem = <<>>, !.inp = <<>>, !.outp = <<>>,
                     !.os.wfd_open = FALSE,
                     !.os.bad_close = w2.os.bad_close \/ ~w2.os.wfd_open]

\* a clean that empties the registry of a session without a transport too
clean_transport_registry(w) ==
  IF ~w.trans.live THEN [ClearAllMem(w, 1) EXCEPT !.mem = <<>>]
  ELSE LET w0 == do_remove_source(w)
           w1 == [w0 EXCEPT !.stale = Unlinked(w0)]
           w2 == ClearAllMem(w1, 1)
           lost == \/ \E i \in 1..Len(w2.mem) : w2.mem[i].ptr
                   \/ MappedEntries(w2.inp) \/ MappedEntries(w2.outp)
       IN [w2 EXCEPT !.mem = <<>>, !.inp = <<>>, !.outp = <<>>,
                     !.node.io = [d \in Dirs |->
                                    [w2.node.io[d] EXCEPT !.mem = 0]],
                     !.lost = lost,
                     !.os.wfd_open = FALSE,
                     !.os.bad_close = w2.os.bad_close \/ ~w2.os.wfd_open,
                     !.trans = NoTrans]

\* clean_transport(proxy). Mappings that no structure refers to any more
\* after the arrays are freed stay mapped for the life of the process (lost).
clean_transport(w) ==
  IF ~w.trans.live THEN w
  ELSE LET w0 == do_remove_source(w)
           w1 == [w0 EXCEPT !.stale = Unlinked(w0)]
           w2 == ClearAllMem(w1, 1)
           lost == \/ \E i \in 1..Len(w2.mem) : w2.mem[i].ptr
                   \/ MappedEntries(w2.inp) \/ MappedEntries(w2.outp)
       IN [w2 EXCEPT !.mem = <<>>, !.inp = <<>>, !.outp = <<>>,
                     !.node.io = [d \in Dirs |->
                                    [w2.node.io[d] EXCEPT !.mem = 0]],
                     !.lost = lost,
                     !.os.wfd_open = FALSE,
                     !.os.bad_close = w2.os.bad_close \/ ~w2.os.wfd_open,
                     !.trans = NoTrans]

\* find_port(data, direction, port_id): "null", or the slot index; index
\* max is one past the end of the array ("oob")
find_port(w, d, port_id) ==
  LET max == IF d = "in" THEN w.trans.max_input_ports
                         ELSE w.trans.max_output_ports
  IN IF port_id > max THEN "null"
     ELSE IF port_id = max THEN "oob" ELSE "slot"

\* an add_mem that replaces the entry of an id it knows already
client_node_add_mem_replace(w, mem_id, memfd, flags) ==
  LET m == [id |-> mem_id, fd |-> memfd, flags |-> flags, ref |-> 0,
            map |-> PW_MAP_RANGE_INIT, ptr |-> FALSE]
      i == find_mem(w.mem, mem_id)
  IN IF i # 0 THEN [w EXCEPT !.mem[i] = m]
     ELSE [w EXCEPT !.mem = Append(w.mem, m)]

\* client_node_add_mem
client_node_add_mem(w, mem_id, memfd, flags) ==
  IF find_mem(w.mem, mem_id) # 0 THEN w
  ELSE [w EXCEPT !.mem = Append(w.mem,
            [id |-> mem_id, fd |-> memfd, flags |-> flags, ref |-> 0,
             map |-> PW_MAP_RANGE_INIT, ptr |-> FALSE])]

SPA_IO_BUFFERS_INIT == "OK"

InitPorts(max, have) ==
  [i \in 1..max |-> [port_init EXCEPT !.port = (i - 1) \in have]]

\* client_node_transport
client_node_transport(w, max_in, max_out, writefd) ==
  LET w1 == clean_transport(w) IN
  [w1 EXCEPT !.trans = [live |-> TRUE, max_input_ports |-> max_in,
                        max_output_ports |-> max_out,
                        inputs |-> [i \in 1..max_in |-> SPA_IO_BUFFERS_INIT],
                        msgs |-> <<>>],
             !.inp = InitPorts(max_in, w.node.ports["in"]),
             !.outp = InitPorts(max_out, w.node.ports["out"]),
             !.rtwritefd = writefd,
             !.os.wfd_open = TRUE,
             !.src = [live |-> TRUE, mask |-> {"ERR", "HUP"}]]

\* ---------------------------------------------------------------------
\* client_node_port_use_buffers

FdKinds == {"MemFd", "DmaBuf"}

Pin(w, i) == [w EXCEPT !.mem[i].ref = w.mem[i].ref + 1]

\* bid->mem[bid->n_mem++] = mid, on the entry being built (the last one)
PushMem(w, d, p, i) ==
  LET port == Ports(w, d)[p + 1]
      k == Len(port.buffer_ids)
  IN SetPort(w, d, p, [port EXCEPT !.buffer_ids[k].mem = Append(@, i)])

\* for (j = 0; j < b->n_datas; j++)
RECURSIVE AddDatas(_, _, _, _, _)
AddDatas(w, d, p, datas, j) ==
  IF j > Len(datas) THEN [w |-> w, res |-> "0", cause |-> "none"]
  ELSE IF datas[j].type \in FdKinds
       THEN LET bmid == find_mem(w.mem, datas[j].data) IN
            IF bmid = 0
            THEN [w |-> w, res |-> "-EINVAL", cause |-> "datamem"]
            ELSE AddDatas(PushMem(Pin(w, bmid), d, p, bmid), d, p, datas, j + 1)
       ELSE AddDatas(w, d, p, datas, j + 1)

\* for (i = 0; i < n_buffers; i++); the mmap of buffer fail_at fails
RECURSIVE BuildBuffers(_, _, _, _, _, _)
BuildBuffers(w, d, p, buffers, i, fail_at) ==
  IF i > Len(buffers) THEN [w |-> w, res |-> "0", cause |-> "none"]
  ELSE LET b == buffers[i]
           mid == find_mem(w.mem, b.mem_id)
           port == Ports(w, d)[p + 1]
           len == Len(port.buffer_ids)
       IN IF mid = 0
          THEN [w |-> w, res |-> "-EINVAL", cause |-> "mem"]
          ELSE IF ~MmapOk(w, w.mem[mid].fd, i # fail_at)
          THEN [w |-> SetPort(w, d, p, [port EXCEPT !.buffer_ids = Append(@,
                         [id |-> 0, ptr |-> FALSE, mem |-> <<>>,
                          uninit |-> len + 1 > port.init])]),
                res |-> "-ENOMEM", cause |-> "mmap"]
          ELSE LET w1 == SetPort(Pin(w, mid), d, p,
                           [port EXCEPT !.buffer_ids = Append(@,
                              [id |-> b.id, ptr |-> TRUE, mem |-> <<mid>>,
                               uninit |-> FALSE])])
                   r == AddDatas(w1, d, p, b.datas, 1)
               IN IF r.res # "0" THEN r
                  ELSE BuildBuffers(r.w, d, p, buffers, i + 1, fail_at)

\* what a handler lets out, in the order it does: a done reply (a = seq,
\* v = res), an RT message appended to the ring (v = its type), the wake
\* write on rtwritefd (a = the fd, b = the counter written), a call of a hook
\* of the local graph (v = the hook, a = port id, b = buffer id), a
\* pw_loop_invoke (v = the loop, a = 1 when it blocks)
Out(k, a, b, v) == [k |-> k, a |-> a, b |-> b, v |-> v]

\* cond is the io condition a callback of the data loop was woken with
Handled(w, dones, cause) ==
  [w |-> w, dones |-> dones, cause |-> cause, sent |-> <<>>, cond |-> {},
   log |-> [i \in 1..Len(dones) |-> Out("done", dones[i][1], 0, dones[i][2])]]

\* pw_client_node_proxy_done(data->node_proxy, seq, res)
Reply(h, seq, res) ==
  [h EXCEPT !.dones = Append(@, <<seq, res>>),
            !.log = Append(@, Out("done", seq, 0, res))]

client_node_port_use_buffers(w, seq, d, port_id, buffers, fail_at, node_res, ub) ==
  LET fp == find_port(w, d, port_id) IN
  IF fp = "null" THEN Handled(w, <<<<seq, "-EINVAL">>>>, "port")
  ELSE IF fp = "oob" THEN Handled(Fault(w), <<>>, "fault")
  ELSE LET w1 == clear_buffers(w, d, port_id, ub) IN
       IF w1.os.crashed THEN Handled(w1, <<>>, "fault")
       ELSE LET r == BuildBuffers(w1, d, port_id, buffers, 1, fail_at) IN
            IF r.res = "0"
            THEN Handled(pw_port_use_buffers(r.w, d, TRUE, Len(buffers), node_res),
                         <<<<seq, node_res>>>>,
                         IF Negative(node_res) THEN "node" ELSE "none")
            ELSE Handled(clear_buffers(r.w, d, port_id, ub),
                         <<<<seq, r.res>>>>, r.cause)

\* ---------------------------------------------------------------------
\* client_node_port_set_io
client_node_port_set_io(w, seq, d, port_id, memid, offset, size, ok) ==
  LET fp == find_port(w, d, port_id)
      bound == fp = "slot" /\ Ports(w, d)[port_id + 1].port
      Forward(w1, ptr, sz) ==
        IF ~bound THEN Handled(Fault(w1), <<>>, "fault")
        ELSE Handled([w1 EXCEPT !.node.io[d] =
                        [null |-> ptr.null, mem |-> ptr.mem, start |-> ptr.start,
                         size |-> sz, valid |-> TRUE]], <<>>, "none")
  IN IF fp = "null" THEN Handled(w, <<>>, "port")
     ELSE IF memid = SPA_ID_INVALID THEN Forward(w, NullPtr, 0)
     ELSE LET mid == find_mem(w.mem, memid) IN
          IF mid = 0 THEN Handled(w, <<>>, "mem")
          ELSE LET r == mem_map(w, mid, offset, size, ok) IN
               IF r.ptr.null THEN Handled(r.w, <<>>, "mmap")
               ELSE Forward(r.w, r.ptr, size)

\* ---------------------------------------------------------------------
\* client_node_port_set_param; a slot one past the end reads what lies
\* behind the array: zero (ub = "zero") or garbage
client_node_port_set_param(w, seq, d, port_id, node_res, ub) ==
  LET fp == find_port(w, d, port_id) IN
  IF fp = "null" \/ (fp = "oob" /\ ub = "zero")
     \/ (fp = "slot" /\ ~Ports(w, d)[port_id + 1].port)
  THEN Handled(w, <<<<seq, "-EINVAL">>>>, "port")
  ELSE IF fp = "oob" THEN Handled(Fault(w), <<>>, "fault")
  ELSE IF Negative(node_res) THEN Handled(w, <<<<seq, node_res>>>>, "node")
  ELSE Reply([Handled(w, <<>>, "none") EXCEPT !.sent = <<"port_update">>,
                  !.log = <<Out("port_update", port_id, 0, d)>>],
             seq, node_res)

\* ---------------------------------------------------------------------
\* client_node_set_param(object, seq, id, flags, param): a warning that set
\* param is not implemented, and nothing else
client_node_set_param(w, seq, id, flags) == Handled(w, <<>>, "none")

\* ---------------------------------------------------------------------
\* pw_port_send_command(port->port, true, command): dereferences the pw_port
pw_port_send_command(w, bound) == IF ~bound THEN Fault(w) ELSE w

\* client_node_port_command(object, direction, port_id, command): no reply
\* is sent; the slot one past the end holds no pw_port
client_node_port_command(w, d, port_id) ==
  LET fp == find_port(w, d, port_id) IN
  IF fp = "null" THEN Handled(w, <<>>, "port")
  ELSE LET bound == fp = "slot" /\ Ports(w, d)[port_id + 1].port
           w1 == pw_port_send_command(w, bound)
       IN IF w1.os.crashed THEN Handled(w1, <<>>, "fault")
          ELSE [Handled(w1, <<>>, "none") EXCEPT
                  !.log = <<Out("hook", port_id, 0, "pw_port_send_command")>>]

\* ---------------------------------------------------------------------
\* client_node_command; pw_loop_update_io writes through the source
pw_loop_update_io(w, mask) ==
  IF ~w.src.live THEN Fault(w) ELSE [w EXCEPT !.src.mask = mask]

\* an emit that appends the message twice
Emit_twice(h, msg) ==
  [h EXCEPT !.sent = @ \o <<msg, msg>>,
            !.log = @ \o <<Out("msg", 0, 0, msg), Out("msg", 0, 0, msg),
                           Out("write", h.w.rtwritefd, 1, "")>>]

\* an emit that wakes the server before the message is in the ring
Emit_wake_first(h, msg) ==
  [h EXCEPT !.sent = Append(@, msg),
            !.log = @ \o <<Out("write", h.w.rtwritefd, 1, ""), Out("msg", 0, 0, msg)>>]

\* node_need_input / node_have_output: one ring append, one wake write of
\* the counter 1
Emit(h, msg) ==
  [h EXCEPT !.sent = Append(@, msg),
            !.log = @ \o <<Out("msg", 0, 0, msg), Out("write", h.w.rtwritefd, 1, "")>>]

\* a command handler whose Pause leaves the interest mask as it is
client_node_command_keep(w, seq, cmd, node_res) ==
  IF cmd = "Pause"
  THEN LET w1 == pw_loop_update_io(w, w.src.mask) IN
       IF w1.os.crashed THEN Handled(w1, <<>>, "fault")
       ELSE Handled(w1, <<<<seq, node_res>>>>,
                    IF Negative(node_res) THEN "node" ELSE "none")
  ELSE IF cmd = "Start"
  THEN LET w1 == pw_loop_update_io(w, {"IN", "ERR", "HUP"}) IN
       IF w1.os.crashed THEN Handled(w1, <<>>, "fault")
       ELSE Reply(Emit(Handled([w1 EXCEPT !.trans.inputs =
                                  [i \in 1..w1.trans.max_input_ports |-> "NEED_BUFFER"]],
                               <<>>, IF Negative(node_res) THEN "node" ELSE "none"),
                       "NEED_INPUT"),
                  seq, node_res)
  ELSE IF cmd = "ClockUpdate" THEN Handled(w, <<>>, "none")
  ELSE Handled(w, <<<<seq, "-ENOTSUP">>>>, "unsupported")

\* a command handler that knows Pause and Start only
client_node_command_strict(w, seq, cmd, node_res) ==
  IF cmd = "ClockUpdate" THEN Handled(w, <<<<seq, "-ENOTSUP">>>>, "unsupported")
  ELSE client_node_command_keep(w, seq, cmd, node_res)

\* a command handler that looks at the local node's answer first: a Start or
\* Pause the node rejects is answered and nothing else
client_node_command_checked(w, seq, cmd, node_res) ==
  IF cmd \in {"Pause", "Start"} /\ Negative(node_res)
  THEN Handled(w, <<<<seq, node_res>>>>, "node")
  ELSE IF cmd = "Pause"
  THEN LET w1 == pw_loop_update_io(w, {"ERR", "HUP"}) IN
       IF w1.os.crashed THEN Handled(w1, <<>>, "fault")
       ELSE Handled(w1, <<<<seq, node_res>>>>,
                    IF Negative(node_res) THEN "node" ELSE "none")
  ELSE IF cmd = "Start"
  THEN LET w1 == pw_loop_update_io(w, {"IN", "ERR", "HUP"}) IN
       IF w1.os.crashed THEN Handled(w1, <<>>, "fault")
       ELSE Reply(Emit(Handled([w1 EXCEPT !.trans.inputs =
                                  [i \in 1..w1.trans.max_input_ports |-> "NEED_BUFFER"]],
                               <<>>, IF Negative(node_res) THEN "node" ELSE "none"),
                       "NEED_INPUT"),
                  seq, node_res)
  ELSE IF cmd = "ClockUpdate" THEN Handled(w, <<>>, "none")
  ELSE Handled(w, <<<<seq, "-ENOTSUP">>>>, "unsupported")

\* client_node_command(object, seq, command)
client_node_command(w, seq, cmd, node_res) ==
  IF cmd = "Pause"
  THEN LET w1 == pw_loop_update_io(w, {"ERR", "HUP"}) IN
       IF w1.os.crashed THEN Handled(w1, <<>>, "fault")
       ELSE Handled(w1, <<<<seq, node_res>>>>,
                    IF Negative(node_res) THEN "node" ELSE "none")
  ELSE IF cmd = "Start"
  THEN LET w1 == pw_loop_update_io(w, {"IN", "ERR", "HUP"}) IN
       IF w1.os.crashed THEN Handled(w1, <<>>, "fault")
       ELSE Reply(Emit(Handled([w1 EXCEPT !.trans.inputs =
                                  [i \in 1..w1.trans.max_input_ports |-> "NEED_BUFFER"]],
                               <<>>, IF Negative(node_res) THEN "node" ELSE "none"),
                       "NEED_INPUT"),
                  seq, node_res)
  ELSE IF cmd = "ClockUpdate" THEN Handled(w, <<>>, "none")
  ELSE Handled(w, <<<<seq, "-ENOTSUP">>>>, "unsupported")

\* The Start branch of client_node_command in its two parts, between which
\* the main thread holds no lock and the data loop polls the source with IN
\* enabled: the pw_loop_update_io, and what follows it
start_enable(w) ==
  LET w1 == pw_loop_update_io(w, {"IN", "ERR", "HUP"}) IN
  Handled(w1, <<>>, IF w1.os.crashed THEN "fault" ELSE "none")

start_finish(w, seq, node_res) ==
  Reply(Emit(Handled([w EXCEPT !.trans.inputs =
                        [i \in 1..w.trans.max_input_ports |-> "NEED_BUFFER"]],
                     <<>>, IF Negative(node_res) THEN "node" ELSE "none"),
             "NEED_INPUT"),
        seq, node_res)

\* an error branch that tears the transport down
on_rtsocket_error_clean(w) == clean_transport(w)

\* on_rtsocket_condition with ERR or HUP in the mask: unhandle_socket
on_rtsocket_error(w) == do_remove_source(w)

\* ---------------------------------------------------------------------
\* the RT message pump

\* A walk over the list of out_node that meets an entry of a freed array
\* reads freed memory: the entry reads as it was when freed ("stale"), its
\* links lead the walk away from the live entries ("lost"), or the read
\* faults ("garbage").
Reads == {"stale", "lost", "garbage"}

Crash(h) == [h EXCEPT !.w = Fault(h.w)]

\* a call of a hook of the local graph
Hook(h, name, a, b) == [h EXCEPT !.log = Append(@, Out("hook", a, b, name))]

\* The entries of the live array: p is out_ports[port_id].input, pp its peer
\* out_ports[port_id].output, and pp->node the mix node of the local port
\* bound to the slot (NULL when none is).
ReuseLive(h, port_id, buffer_id) ==
  IF port_id >= Len(h.w.outp) THEN h
  ELSE IF ~h.w.outp[port_id + 1].port THEN Crash(h)
  ELSE Hook(h, "port_reuse_buffer", port_id, buffer_id)

\* case PW_CLIENT_NODE_MESSAGE_PORT_REUSE_BUFFER: the freed entries were
\* linked before the live ones
port_reuse_buffer(h, port_id, buffer_id, rd) ==
  IF h.w.stale = {} THEN ReuseLive(h, port_id, buffer_id)
  ELSE IF rd = "garbage" THEN Crash(h)
  ELSE IF rd = "lost" THEN h
  ELSE IF port_id \in h.w.stale THEN Crash(h)
  ELSE ReuseLive(h, port_id, buffer_id)

\* a dispatch that answers PROCESS_INPUT and PROCESS_OUTPUT the other way round
handle_rtnode_message_swap(h, msg, rd) ==
  IF msg.type = "PROCESS_INPUT" THEN Hook(h, "spa_graph_need_input", 0, 0)
  ELSE IF msg.type = "PROCESS_OUTPUT" THEN Hook(h, "spa_graph_have_output", 0, 0)
  ELSE IF msg.type = "PORT_REUSE_BUFFER"
  THEN port_reuse_buffer(h, msg.port_id, msg.buffer_id, rd)
  ELSE h

\* handle_rtnode_message(proxy, message): spa_graph_have_output is called on
\* data->in_node, spa_graph_need_input on data->out_node; any other type is
\* logged
handle_rtnode_message(h, msg, rd) ==
  IF msg.type = "PROCESS_INPUT" THEN Hook(h, "spa_graph_have_output", 0, 0)
  ELSE IF msg.type = "PROCESS_OUTPUT" THEN Hook(h, "spa_graph_need_input", 0, 0)
  ELSE IF msg.type = "PORT_REUSE_BUFFER"
  THEN port_reuse_buffer(h, msg.port_id, msg.buffer_id, rd)
  ELSE h

\* while (pw_client_node_transport_next_message(data->trans, &message) == 1):
\* the message is parsed out of the ring, then handled
RECURSIVE Drain(_, _)
Drain(h, rd) ==
  IF h.w.os.crashed \/ h.w.trans.msgs = <<>> THEN h
  ELSE LET msg == Head(h.w.trans.msgs)
           h1 == [h EXCEPT !.w.trans.msgs = Tail(@),
                           !.log = Append(@, Out("dispatch", msg.port_id,
                                                 msg.buffer_id, msg.type))]
       IN Drain(handle_rtnode_message(h1, msg, rd), rd)

\* a pump that handles one message for each wake
on_rtsocket_condition_once(w, mask, n, cmd, rd) ==
  LET h == [Handled(w, <<>>, "none") EXCEPT !.cond = mask,
                                            !.log = <<Out("read", n, cmd, "")>>]
      msg == Head(w.trans.msgs)
  IN IF mask \cap {"ERR", "HUP"} # {} THEN [h EXCEPT !.w = on_rtsocket_error(w)]
     ELSE IF w.trans.msgs = <<>> THEN h
     ELSE handle_rtnode_message(
            [h EXCEPT !.w.trans.msgs = Tail(@),
                      !.log = Append(@, Out("dispatch", msg.port_id, msg.buffer_id,
                                            msg.type))], msg, rd)

\* on_rtsocket_condition(user_data, fd, mask); n bytes were read from the fd
\* and cmd is the counter they held
on_rtsocket_condition(w, mask, n, cmd, rd) ==
  LET h == [Handled(w, <<>>, "none") EXCEPT !.cond = mask] IN
  IF mask \cap {"ERR", "HUP"} # {}
  THEN [h EXCEPT !.w = on_rtsocket_error(w),
                 !.log = <<Out("invoke", 1, 0, "data_loop")>>]
  ELSE IF "IN" \in mask
  THEN Drain([h EXCEPT !.log = <<Out("read", n, cmd, "")>>], rd)
  ELSE h

\* node_need_input / node_have_output and the hooks of the two shim nodes:
\* pw_client_node_transport_add_message dereferences data->trans
node_event(w, msg) ==
  IF ~w.trans.live THEN Handled(Fault(w), <<>>, "fault")
  ELSE Emit(Handled(w, <<>>, "none"), msg)

\* impl_port_reuse_buffer of the shim nodes: a trace line, return 0
impl_port_reuse_buffer(w) == Handled(w, <<>>, "none")

\* the two loops of node_proxy_destroy: clear_port of every slot
RECURSIVE ClearPorts(_, _, _, _)
ClearPorts(w, d, p, ub) ==
  IF w.os.crashed \/ p >= Len(Ports(w, d)) THEN w
  ELSE ClearPorts(clear_buffers(w, d, p, ub), d, p + 1, ub)

\* node_proxy_destroy(_data)
node_proxy_destroy(w, ub) ==
  IF w.trans.live
  THEN LET w1 == ClearPorts(ClearPorts(w, "in", 0, ub), "out", 0, ub) IN
       IF w1.os.crashed THEN w1 ELSE clean_transport(w1)
  ELSE clean_transport(w)

\* what node_proxy_destroy does to the mappings of the buffer entries and to
\* the RT source, in the order it does it: the munmap of clear_buffers for
\* every mapped entry of every slot (a = slot, b = entry, v = direction), then
\* the blocking invoke of unhandle_socket in clean_transport
RECURSIVE EntryUnmaps(_, _, _, _)
EntryUnmaps(bids, d, p, e) ==
  IF e > Len(bids) THEN <<>>
  ELSE (IF bids[e].ptr THEN <<Out("unmap", p, e - 1, d)>> ELSE <<>>)
       \o EntryUnmaps(bids, d, p, e + 1)

RECURSIVE PortUnmaps(_, _, _)
PortUnmaps(ports, d, p) ==
  IF p >= Len(ports) THEN <<>>
  ELSE EntryUnmaps(ports[p + 1].buffer_ids, d, p, 1) \o PortUnmaps(ports, d, p + 1)

DestroyLog(w) ==
  IF ~w.trans.live THEN <<>>
  ELSE PortUnmaps(w.inp, "in", 0) \o PortUnmaps(w.outp, "out", 0)
       \o <<Out("invoke", 1, 0, "data_loop")>>

\* =====================================================================
\* Actions of the node session: one per control event
\* =====================================================================

\* input domains of port_use_buffers: a buffer is plain (its own memory id
\* alone), carries an id that is not its position, or has one data element
PlainBuffer == [mem_id |-> 5, id |-> 0, datas |-> <<>>]
Buffers == {[PlainBuffer EXCEPT !.mem_id = m] : m \in MemIdVals}
           \cup {[PlainBuffer EXCEPT !.id = 1]}
           \cup {[PlainBuffer EXCEPT !.datas = <<[type |-> "MemFd", data |-> m]>>] :
                   m \in MemIdVals}
           \cup {[PlainBuffer EXCEPT !.datas = <<[type |-> "MemPtr", data |-> 64]>>]}
\* buffer arrays of an event: none, one buffer, or a plain buffer and another
BufferArrays == {<<>>} \cup {<<b>> : b \in Buffers}
                \cup {<<PlainBuffer, [PlainBuffer EXCEPT !.mem_id = m, !.id = 1]>> :
                        m \in MemIdVals}
PortIdVals == 0..(MaxPorts + 1)
OffsetVals == {64}
SizeVals == {24}
WriteFds == {7}
Results == {"0", "-EIO"}
Outcomes == {"zero", "garbage"}
\* the port ids of the exported node: a source such as alsa-source has one
\* output port and no input port
NodePorts == [in |-> {}, out |-> {0}]

InitOs == [fd_open |-> [f \in Fds |-> FALSE], bad_close |-> FALSE,
           wfd_open |-> FALSE, crashed |-> FALSE]
InitNode(c) == [ports |-> c, io |-> [d \in Dirs |-> NoIo],
                bufs |-> [d \in Dirs |-> 0]]

Call(ev, seq, d, port, n, h) ==
  [ev |-> ev, seq |-> seq, d |-> d, port |-> port, n |-> n,
   dones |-> h.dones, cause |-> h.cause, sent |-> h.sent, log |-> h.log,
   cond |-> h.cond, lost |-> h.w.lost]

\* the state a handler leaves; a fault ends the process
Commit(h, call, cmd) ==
  IF h.w.os.crashed
  THEN /\ trans' = NoTrans
       /\ rtwritefd' = 0
       /\ rtsocket_source' = NoSource
       /\ mem_ids' = <<>>
       /\ in_ports' = <<>>
       /\ out_ports' = <<>>
       /\ out_node' = {}
       /\ node' = InitNode(node.ports)
       /\ os' = [InitOs EXCEPT !.crashed = TRUE]
       /\ last_cmd' = "none"
       /\ ncall' = [call EXCEPT !.dones = <<>>, !.sent = <<>>, !.log = <<>>,
                                !.cause = "fault", !.lost = FALSE]
  ELSE /\ trans' = h.w.trans
       /\ rtwritefd' = h.w.rtwritefd
       /\ rtsocket_source' = h.w.src
       /\ mem_ids' = h.w.mem
       /\ in_ports' = h.w.inp
       /\ out_ports' = h.w.outp
       /\ out_node' = h.w.stale
       /\ node' = h.w.node
       /\ os' = h.w.os
       /\ last_cmd' = cmd
       /\ ncall' = call

\* The server announces a region. A descriptor received is one the process
\* holds already or the lowest number that is free; announcing an id again
\* repeats its descriptor. A region is announced readable and writable, and
\* announced again with any flags.
AddMem ==
  \E mem_id \in MemIds, memfd \in Fds :
    \E flags \in IF find_mem(mem_ids, mem_id) = 0 THEN {3} ELSE MemFlags :
      /\ ~os.crashed
      /\ \A f \in Fds : f < memfd => os.fd_open[f]
      /\ IF find_mem(mem_ids, mem_id) = 0
         THEN Len(mem_ids) < MaxMem
         ELSE mem_ids[find_mem(mem_ids, mem_id)].fd = memfd
      /\ UNCHANGED rvars
      /\ Commit(Handled(client_node_add_mem(
                    [World EXCEPT !.os.fd_open[memfd] = TRUE], mem_id, memfd, flags),
                  <<>>, "none"),
                Call("add_mem", 0, "in", 0, mem_id, Handled(World, <<>>, "none")),
                last_cmd)

\* The server sizes the transport area; every port of the local node has a
\* slot in it.
TransportOf(OutSizes) ==
  \E max_in \in {MaxPorts}, max_out \in OutSizes, writefd \in WriteFds :
    /\ ~os.crashed
    /\ \A p \in node.ports["in"] : p < max_in
    /\ \A p \in node.ports["out"] : p < max_out
    /\ UNCHANGED rvars
    /\ LET h == Handled(client_node_transport(World, max_in, max_out, writefd),
                        <<>>, "none")
       IN Commit(h, Call("transport", 0, "in", 0, IF trans.live THEN 1 ELSE 0, h),
                 "none")

\* a transport area with as many output slots as the bound allows
Transport == TransportOf({MaxPorts})

\* a transport area that may have one output slot more than that: the node
\* announced max_output_ports, not the ports it has
TransportWide == TransportOf(MaxPorts..(MaxPorts + 1))

\* the transport area of a node that announced no input ports, as a source
\* does: no in_ports slot, MaxPorts out_ports slots
TransportSource ==
  \E max_in \in {0}, max_out \in {MaxPorts}, writefd \in WriteFds :
    /\ ~os.crashed
    /\ \A p \in node.ports["in"] : p < max_in
    /\ \A p \in node.ports["out"] : p < max_out
    /\ UNCHANGED rvars
    /\ LET h == Handled(client_node_transport(World, max_in, max_out, writefd),
                        <<>>, "none")
       IN Commit(h, Call("transport", 0, "in", 0, IF trans.live THEN 1 ELSE 0, h),
                 "none")

\* whether the event's port id resolves to a slot with a local port bound
Resolves(d, port_id) ==
  /\ find_port(World, d, port_id) = "slot"
  /\ Ports(World, d)[port_id + 1].port

\* The mmap of buffer fail_at fails (0: none does). The local node's answer
\* matters when the buffers were built, the outcome of reading a slot that
\* was never written when an mmap failed.
PortUseBuffers ==
  \E seq \in Seqs, d \in Dirs, port_id \in PortIdVals :
    \E buffers \in IF Resolves(d, port_id) THEN BufferArrays ELSE {<<PlainBuffer>>} :
      \E fail_at \in IF Resolves(d, port_id) THEN 0..Len(buffers) ELSE {0} :
        \E node_res \in IF fail_at = 0 THEN Results ELSE {"0"},
           ub \in IF Resolves(d, port_id)
                     /\ fail_at > Ports(World, d)[port_id + 1].init
                  THEN Outcomes ELSE {"zero"} :
          /\ ~os.crashed
          /\ trans.live
          /\ UNCHANGED rvars
          /\ LET h == client_node_port_use_buffers(World, seq, d, port_id, buffers,
                                                   fail_at, node_res, ub)
             IN Commit(h, Call("port_use_buffers", seq, d, port_id, Len(buffers), h),
                       last_cmd)

\* buffers that are their own region alone, for a port id that names a slot
PlainArrays == {<<>>} \cup {<<[PlainBuffer EXCEPT !.mem_id = m]>> : m \in MemIds}

PortUseBuffersPlain ==
  \E seq \in Seqs, d \in Dirs, port_id \in {0} :
    \E buffers \in IF Resolves(d, port_id) THEN PlainArrays ELSE {<<PlainBuffer>>} :
      \E fail_at \in IF Resolves(d, port_id) THEN 0..Len(buffers) ELSE {0} :
        \E node_res \in IF fail_at = 0 THEN Results ELSE {"0"},
           ub \in IF Resolves(d, port_id)
                     /\ fail_at > Ports(World, d)[port_id + 1].init
                  THEN Outcomes ELSE {"zero"} :
          /\ ~os.crashed
          /\ trans.live
          /\ UNCHANGED rvars
          /\ LET h == client_node_port_use_buffers(World, seq, d, port_id, buffers,
                                                   fail_at, node_res, ub)
             IN Commit(h, Call("port_use_buffers", seq, d, port_id, Len(buffers), h),
                       last_cmd)

\* whether port_set_io with these arguments reaches the mmap of mem_map
Maps(d, port_id, memid) ==
  /\ find_port(World, d, port_id) # "null"
  /\ memid # SPA_ID_INVALID
  /\ find_mem(mem_ids, memid) # 0
  /\ ~mem_ids[find_mem(mem_ids, memid)].ptr

\* The mmap of mem_map succeeds or fails (ok), when the event reaches it.
PortSetIo ==
  \E seq \in Seqs, d \in Dirs, port_id \in PortIdVals, memid \in MemIdVals,
     offset \in OffsetVals, size \in SizeVals :
    \E ok \in IF Maps(d, port_id, memid) THEN BOOLEAN ELSE {TRUE} :
      /\ ~os.crashed
      /\ trans.live
      /\ UNCHANGED rvars
      /\ LET h == client_node_port_set_io(World, seq, d, port_id, memid,
                                          offset, size, ok)
         IN Commit(h, Call("port_set_io", seq, d, port_id, 0, h), last_cmd)

\* an io area for a port id that names a slot
PortSetIoSlot ==
  \E seq \in Seqs, d \in Dirs, port_id \in {0}, memid \in MemIdVals,
     offset \in OffsetVals, size \in SizeVals :
    \E ok \in IF Maps(d, port_id, memid) THEN BOOLEAN ELSE {TRUE} :
      /\ ~os.crashed
      /\ trans.live
      /\ UNCHANGED rvars
      /\ LET h == client_node_port_set_io(World, seq, d, port_id, memid,
                                          offset, size, ok)
         IN Commit(h, Call("port_set_io", seq, d, port_id, 0, h), last_cmd)

PortSetParam ==
  \E seq \in Seqs, d \in Dirs, port_id \in PortIdVals, node_res \in Results,
     ub \in Outcomes :
    /\ ~os.crashed
    /\ trans.live
    /\ UNCHANGED rvars
    /\ LET h == client_node_port_set_param(World, seq, d, port_id, node_res, ub)
       IN Commit(h, Call("port_set_param", seq, d, port_id, 0, h), last_cmd)

\* the server sets a parameter of the node
ParamIds == {1, 2}
ParamFlags == {0}

SetParam ==
  \E seq \in Seqs, id \in ParamIds, flags \in ParamFlags :
    /\ ~os.crashed
    /\ UNCHANGED rvars
    /\ LET h == client_node_set_param(World, seq, id, flags)
       IN Commit(h, Call("set_param", seq, "in", id, flags, h), last_cmd)

\* the server sends a command to a port
PortCommand ==
  \E d \in Dirs, port_id \in PortIdVals :
    /\ ~os.crashed
    /\ trans.live
    /\ UNCHANGED rvars
    /\ LET h == client_node_port_command(World, d, port_id)
       IN Commit(h, Call("port_command", 0, d, port_id, 0, h), last_cmd)

Command ==
  \E seq \in Seqs, cmd \in {"Pause", "Start", "ClockUpdate", "Other"},
     node_res \in Results :
    /\ ~os.crashed
    /\ trans.live
    /\ UNCHANGED rvars
    /\ LET h == client_node_command(World, seq, cmd, node_res)
       IN Commit(h, Call(cmd, seq, "in", 0, 0, h),
                 IF cmd \in {"Pause", "Start"} THEN cmd ELSE last_cmd)

\* The data loop reports ERR or HUP on the read fd whatever the interest
\* mask is, and IN when the mask asks for it.
RtError ==
  \E mask \in SUBSET {"IN", "ERR", "HUP"} :
    /\ ~os.crashed
    /\ rtsocket_source.live
    /\ mask \cap {"ERR", "HUP"} # {}
    /\ "IN" \in mask => "IN" \in rtsocket_source.mask
    /\ UNCHANGED rvars
    /\ LET h == on_rtsocket_condition(World, mask, 0, 0, "stale")
       IN Commit(h, Call("rt_error", 0, "in", 0, 0, h), last_cmd)

\* the messages the server writes to the inbound ring
ReusePorts == 0..MaxPorts
ReuseBuffers == {2}
Messages ==
  {[type |-> t, port_id |-> 0, buffer_id |-> 0] :
     t \in {"PROCESS_INPUT", "PROCESS_OUTPUT", "UNKNOWN"}}
  \cup {[type |-> "PORT_REUSE_BUFFER", port_id |-> p, buffer_id |-> b] :
          p \in ReusePorts, b \in ReuseBuffers}

\* the server appends a message to the inbound ring
RingWrite ==
  \E msg \in Messages :
    /\ ~os.crashed
    /\ trans.live
    /\ Len(trans.msgs) < MaxRing
    /\ UNCHANGED rvars
    /\ LET h == Handled([World EXCEPT !.trans.msgs = Append(@, msg)], <<>>, "none")
       IN Commit(h, Call("ring_write", 0, "out", 0, 0, h), last_cmd)

\* what read(fd, &cmd, 8) gives: the bytes read and the counter; a short
\* read leaves cmd as it was
CounterReads == {<<8, 1>>, <<8, 2>>, <<0, 0>>}

\* The data loop reports IN alone on the read fd. The outcome of reading a
\* freed list entry matters when one is linked.
RtWake ==
  \E c \in CounterReads, rd \in IF out_node = {} THEN {"stale"} ELSE Reads :
    /\ ~os.crashed
    /\ rtsocket_source.live
    /\ "IN" \in rtsocket_source.mask
    /\ UNCHANGED rvars
    /\ LET h == on_rtsocket_condition(World, {"IN"}, c[1], c[2], rd)
       IN Commit(h, Call("rt_wake", 0, "out", 0, Len(trans.msgs), h), last_cmd)

\* The local node emits need_input or have_output, or the graph runs
\* process_output of the in-bound shim node or process_input of the
\* out-bound one.
NodeEvent ==
  \E e \in {"need_input", "have_output", "process_output", "process_input"} :
    /\ ~os.crashed
    /\ UNCHANGED rvars
    /\ LET h == node_event(World, IF e \in {"need_input", "process_output"}
                                  THEN "NEED_INPUT" ELSE "HAVE_OUTPUT")
       IN Commit(h, Call(e, 0, "in", 0, 0, h), last_cmd)

\* The main thread is inside the Start branch of client_node_command, past
\* the pw_loop_update_io: last_cmd is "Starting" until the branch has ended.
MainIdle == last_cmd # "Starting"

StartEnable ==
  \E seq \in Seqs :
    /\ ~os.crashed
    /\ trans.live
    /\ MainIdle
    /\ UNCHANGED rvars
    /\ LET h == start_enable(World)
       IN Commit(h, Call("start_enable", seq, "in", 0, 0, h), "Starting")

StartFinish ==
  \E seq \in Seqs, node_res \in Results :
    /\ ~os.crashed
    /\ trans.live
    /\ ~MainIdle
    /\ UNCHANGED rvars
    /\ LET h == start_finish(World, seq, node_res)
       IN Commit(h, Call("Start", seq, "in", 0, 0, h), "Start")

\* the graph calls port_reuse_buffer of a shim node
ShimReuseBuffer ==
  \E port_id \in ReusePorts, buffer_id \in ReuseBuffers :
    /\ ~os.crashed
    /\ trans.live
    /\ UNCHANGED rvars
    /\ LET h == impl_port_reuse_buffer(World)
       IN Commit(h, Call("shim_reuse_buffer", 0, "in", port_id, buffer_id, h),
                 last_cmd)

\* The proxy is destroyed and the node exported again: the new proxy has
\* zeroed user data, an empty registry and freshly initialised shim nodes.
\* The regions of a registry that was never cleaned keep their descriptors.
Reexport ==
  \E ub \in Outcomes :
    /\ ~os.crashed
    /\ UNCHANGED rvars
    /\ LET w == node_proxy_destroy(World, ub)
           h == [Handled([w EXCEPT !.rtwritefd = 0, !.stale = {}, !.mem = <<>>],
                         <<>>, "none") EXCEPT !.log = DestroyLog(World)]
       IN Commit(h, Call("destroy", 0, "in", 0, IF trans.live THEN 1 ELSE 0, h),
                 "none")

NodeInit ==
  /\ trans = NoTrans
  /\ rtwritefd = 0
  /\ rtsocket_source = NoSource
  /\ mem_ids = <<>>
  /\ in_ports = <<>>
  /\ out_ports = <<>>
  /\ out_node = {}
  /\ node = InitNode(NodePorts)
  /\ os = InitOs
  /\ last_cmd = "none"
  /\ ncall = Call("export", 0, "in", 0, 0, Handled(World, <<>>, "none"))

Init == RemoteInit /\ NodeInit

\* the first transport event of a session
Attach == ~trans.live /\ Transport

\* the memory, buffer and io path of one transport session
Next ==
  \/ AddMem
  \/ Attach
  \/ PortUseBuffers
  \/ PortSetIo

Spec == Init /\ [][Next]_vars

\* the buffer path over any number of transport events; no io area is bound
BufNext ==
  \/ AddMem
  \/ Transport
  \/ PortUseBuffers

SpecBuf == Init /\ [][BufNext]_vars

\* the command path of the session, with regions registered
CtlNext ==
  \/ AddMem
  \/ Transport
  \/ Command
  \/ SetParam
  \/ PortSetParam
  \/ PortCommand
  \/ RtError
  \/ Reexport

SpecCtl == Init /\ [][CtlNext]_vars

\* the RT path: commands, the inbound ring and the pump, the local node's
\* events, over any number of transport events
RtNext ==
  \/ TransportWide
  \/ Command
  \/ RingWrite
  \/ RtWake
  \/ RtError
  \/ NodeEvent
  \/ ShimReuseBuffer
  \/ Reexport

SpecRt == Init /\ [][RtNext]_vars

\* the registry over any number of transport events, with buffers and io
\* areas bound to the port slot
MemNext ==
  \/ AddMem
  \/ Transport
  \/ PortUseBuffersPlain
  \/ PortSetIoSlot

SpecMem == Init /\ [][MemNext]_vars

\* the two threads around a Start: the main thread handles transport events
\* and commands, the Start in its two parts; the server fills the ring and
\* the data loop wakes the pump whenever IN is enabled
StartNext ==
  \/ (MainIdle /\ Transport)
  \/ (MainIdle /\ Command)
  \/ StartEnable
  \/ StartFinish
  \/ RingWrite
  \/ RtWake

SpecStart == Init /\ [][StartNext]_vars

\* the session of a source node, with buffers on its output port, up to the
\* destroy of the proxy
DestroyNext ==
  \/ AddMem
  \/ TransportSource
  \/ PortUseBuffersPlain
  \/ Command
  \/ Reexport

SpecDestroy == Init /\ [][DestroyNext]_vars

\* the connection state machine
SpecRemote == Init /\ [][RemoteNext]_vars

\* =====================================================================
\* Properties
\* =====================================================================

\* the last event was a port_use_buffers whose port resolved and which returned
UseBuffersReturned ==
  ncall.ev = "port_use_buffers" /\ ncall.cause \notin {"port", "fault"}

\* the slot and the buffer table the last event addressed
Slot == Ports(World, ncall.d)[ncall.port + 1]
Table == Slot.buffer_ids

\* how often region i stands in the pinned-memory lists of these entries
RECURSIVE PinsOfEntries(_, _)
PinsOfEntries(bids, i) ==
  IF bids = <<>> THEN 0
  ELSE Cardinality({k \in 1..Len(Head(bids).mem) : Head(bids).mem[k] = i})
       + PinsOfEntries(Tail(bids), i)

\* the buffer entries of all ports
RECURSIVE EntriesOfPorts(_)
EntriesOfPorts(ports) ==
  IF ports = <<>> THEN <<>>
  ELSE Head(ports).buffer_ids \o EntriesOfPorts(Tail(ports))

AllEntries == EntriesOfPorts(in_ports) \o EntriesOfPorts(out_ports)

Pins(i) == PinsOfEntries(AllEntries, i)

\* how many buffer entries, of all ports, pin region i
EntriesPinning(i) ==
  Cardinality({e \in 1..Len(AllEntries) : PinsOfEntries(<<AllEntries[e]>>, i) > 0})

\* ---------------------------------------------------------------- C1
\* C1: in every reachable state a region of the registry whose fd is -1 has
\* no mapping, also after it was cleared while another region holds the same
\* fd value.
C1_NoMappingWithoutFd ==
  \A i \in 1..Len(mem_ids) : mem_ids[i].fd = -1 => ~mem_ids[i].ptr

\* ---------------------------------------------------------------- C2
\* C2: after a successful port_use_buffers with k buffers the table holds k
\* entries, and in_order is true exactly when every entry i has id i.
C2_InOrderIffIdsMatch ==
  (UseBuffersReturned /\ ncall.cause = "none") =>
    /\ Len(Table) = ncall.n
    /\ Slot.in_order <=> \A i \in 1..Len(Table) : Table[i].id = i - 1

\* ---------------------------------------------------------------- C3
\* C3: a transport event tears the previous transport down completely: no
\* mapping of it stays mapped with nothing referring to it, and the local
\* node holds no buffers of it.
C3_FullTeardown ==
  ncall.ev = "transport" =>
    /\ ~ncall.lost
    /\ \A d \in Dirs : node.bufs[d] = 0

\* ---------------------------------------------------------------- C4
C4_RefcountIsPins ==
  \A i \in 1..Len(mem_ids) :
    /\ mem_ids[i].ref = Pins(i)
    /\ mem_ids[i].ref >= EntriesPinning(i)

\* a port_use_buffers step that leaves the table empty ran clear_buffers last
C4_ClearStep ==
  (UseBuffersReturned' /\ Table' = <<>>) =>
    \A i \in 1..Len(mem_ids) :
      LET here == PinsOfEntries(Ports(World, ncall'.d)[ncall'.port + 1].buffer_ids, i)
      IN (here > 0 /\ here = Pins(i)) =>
           /\ mem_ids'[i].ref = 0
           /\ mem_ids'[i].fd = -1
           /\ mem_ids'[i].id = SPA_ID_INVALID

C5_AtomicReplacement ==
  UseBuffersReturned =>
    /\ Len(ncall.dones) = 1
    /\ IF Negative(ncall.dones[1][2])
       THEN Table = <<>> /\ \A i \in 1..Len(mem_ids) : mem_ids[i].ref = Pins(i)
       ELSE Len(Table) = ncall.n

\* ---------------------------------------------------------------- C6
\* the handler met a memory id that is not registered
UnknownMem == ncall.ev = "port_use_buffers" /\ ncall.cause \in {"mem", "datamem"}

C7_LatchedUntilDisconnect ==
  [][state = "ERROR" =>
       /\ state' = "ERROR" \/ rcall'.op = "disconnect"
       /\ rcall'.op \in {"connect", "connect_fd"} => rcall'.ret = "-EIO"]_vars

\* C7: in ERROR an error event, a done event with a seq other than 0 and a
\* late connect callback leave the state and the error text as they are;
\* ERROR is left by disconnect (to UNCONNECTED), by a connect or connect_fd
\* (which first move to CONNECTING) and by a done event with seq 0 (to
\* CONNECTED); a connect call returns a negative value exactly when the
\* remote is in ERROR when it returns.
C7_ErrorLeft ==
  [][/\ (state = "ERROR" /\ rcall'.op \in {"error", "done_connect", "info", "export"})
          => state' = "ERROR" /\ error' = error
     /\ (state = "ERROR" /\ rcall'.op = "done" /\ rcall'.sync # <<0>>)
          => state' = "ERROR" /\ error' = error
     /\ (state = "ERROR" /\ rcall'.op = "done" /\ rcall'.sync = <<0>>)
          => state' = "CONNECTED"
     /\ (state = "ERROR" /\ rcall'.op = "disconnect") => state' = "UNCONNECTED"
     /\ (state = "ERROR" /\ rcall'.op \in {"connect", "connect_fd"})
          => /\ rcall'.notified # <<>>
             /\ rcall'.notified[1] = <<"ERROR", "CONNECTING", NULL>>
     /\ rcall'.op \in {"connect", "connect_fd"}
          => (Negative(rcall'.ret) <=> state' = "ERROR")]_vars

\* a connect in ERROR moved the remote to CONNECTING and returned 0
C7_Witness ==
  /\ rcall.op = "connect" /\ rcall.ret = "0" /\ state = "CONNECTING"
  /\ rcall.notified = <<<<"ERROR", "CONNECTING", NULL>>>>

\* ---------------------------------------------------------------- C8
\* the notifications of a step lead from the state before it to the state
\* after it
RECURSIVE Chained(_, _, _)
Chained(notified, from, to) ==
  IF notified = <<>> THEN from = to
  ELSE Head(notified)[1] = from /\ Chained(Tail(notified), Head(notified)[2], to)

\* C8: every state-changed notification carries old # new; a request for the
\* state the remote is in (error in ERROR, disconnect in UNCONNECTED, done(0)
\* in CONNECTED, connect in CONNECTING) fires no notification for it, and a
\* step without notification changes neither the state nor the error text.
C8_NotifyOnChange ==
  [][/\ \A k \in 1..Len(rcall'.notified) :
          rcall'.notified[k][1] # rcall'.notified[k][2]
     /\ Chained(rcall'.notified, state, state')
     /\ rcall'.notified = <<>> => state' = state /\ error' = error
     /\ (state = "ERROR" /\ rcall'.op = "error") => rcall'.notified = <<>>
     /\ (state = "UNCONNECTED" /\ rcall'.op = "disconnect") => rcall'.notified = <<>>
     /\ (state = "CONNECTED" /\ rcall'.op = "done") => rcall'.notified = <<>>
     /\ (state = "CONNECTING" /\ rcall'.op \in {"connect", "connect_fd"})
          => \A k \in 1..Len(rcall'.notified) :
               rcall'.notified[k][2] # "CONNECTING"]_vars

\* an error event arrived in ERROR: no notification, the first text is kept
C8_Witness ==
  /\ rcall.op = "error" /\ rcall.notified = <<>>
  /\ state = "ERROR" /\ error \in ErrTexts

\* ---------------------------------------------------------------- C9
\* C9: every port_set_io, port_use_buffers and port_set_param event that
\* returns was answered by exactly one done carrying its seq.
C9_OneDonePerSeq ==
  (ncall.ev \in {"port_set_io", "port_use_buffers", "port_set_param"}
   /\ ncall.cause # "fault") =>
    Len(ncall.dones) = 1 /\ ncall.dones[1][1] = ncall.seq

\* ---------------------------------------------------------------- C10
\* C10: the source a transport event creates has mask {ERR, HUP}; the mask of
\* the source is {ERR, HUP} or {IN, ERR, HUP}, and it holds IN only when the
\* command handled last since the attach, of Start and Pause, is a Start.
C10_MaskFollowsCommands ==
  /\ (ncall.ev = "transport" /\ ~os.crashed) =>
       rtsocket_source.live /\ rtsocket_source.mask = {"ERR", "HUP"}
  /\ rtsocket_source.live =>
       /\ rtsocket_source.mask \in {{"ERR", "HUP"}, {"IN", "ERR", "HUP"}}
       /\ "IN" \in rtsocket_source.mask <=> last_cmd = "Start"

\* a Pause after a Start took IN out of the mask again
C10_Witness ==
  /\ ncall.ev = "Pause" /\ last_cmd = "Pause" /\ rtsocket_source.live
  /\ rtsocket_source.mask = {"ERR", "HUP"}
  /\ trans.inputs # <<>> /\ trans.inputs[1] = "NEED_BUFFER"

\* ---------------------------------------------------------------- C11
\* a Start command was handled in this transport session: only Start writes
\* NEED_BUFFER to the input io slots
Started ==
  /\ trans.live
  /\ trans.inputs # <<>>
  /\ \A i \in 1..Len(trans.inputs) : trans.inputs[i] = "NEED_BUFFER"

\* C11: when the handler of command(seq, Start) returns, the interest mask of
\* the RT source is {IN, ERR, HUP}, every input io slot 0..max_input_ports-1
\* has status NEED_BUFFER, and what the handler let out is, in this order, one
\* NEED_INPUT message, one wake write of the counter 1 on the write fd, and
\* one done(seq, res): the NEED_INPUT precedes the acknowledgement.
C11_StartEmitsThenReplies ==
  (ncall.ev = "Start" /\ ncall.cause # "fault") =>
    /\ rtsocket_source.live
    /\ rtsocket_source.mask = {"IN", "ERR", "HUP"}
    /\ Len(trans.inputs) = trans.max_input_ports
    /\ \A i \in 1..trans.max_input_ports : trans.inputs[i] = "NEED_BUFFER"
    /\ \E res \in Results :
         ncall.log = <<Out("msg", 0, 0, "NEED_INPUT"), Out("write", rtwritefd, 1, ""),
                       Out("done", ncall.seq, 0, res)>>
    /\ ncall.sent = <<"NEED_INPUT">>
    /\ Len(ncall.dones) = 1

C11_Witness ==
  /\ ncall.ev = "Start"
  /\ ncall.cause = "none"
  /\ trans.max_input_ports >= 1
  /\ Started
  /\ Len(ncall.log) = 3
  /\ ncall.log[1].v = "NEED_INPUT"
  /\ ncall.log[3] = Out("done", ncall.seq, 0, "0")

\* ---------------------------------------------------------------- C12
\* C12: when the handler of Pause returns, the interest mask of the RT source
\* is {ERR, HUP} and the Pause was answered by exactly one done(seq, res); and
\* in every state where a Start was handled and the last Start or Pause
\* handled was a Pause, the last event appended no RT message to the ring.
C12_QuietAfterPause ==
  /\ (ncall.ev = "Pause" /\ ncall.cause # "fault") =>
       /\ rtsocket_source.live
       /\ rtsocket_source.mask = {"ERR", "HUP"}
       /\ Len(ncall.dones) = 1
       /\ ncall.dones[1][1] = ncall.seq
  /\ (Started /\ last_cmd = "Pause") => ncall.sent = <<>>

\* a need_input of the local node after Start and Pause is put on the ring
C12_Witness ==
  /\ Started
  /\ last_cmd = "Pause"
  /\ rtsocket_source.live
  /\ rtsocket_source.mask = {"ERR", "HUP"}
  /\ ncall.ev = "need_input"
  /\ ncall.sent = <<"NEED_INPUT">>

\* ---------------------------------------------------------------- C13
\* the session after clean_transport has run on it
Cleaned == clean_transport(World)

\* C13: in every reachable state, running clean_transport leaves no transport,
\* no RT source, the write fd closed, an empty registry and no port arrays;
\* running it again on the result, or running it on a session without a
\* transport, changes nothing (no source removal, unmap, close or free); and a
\* destroyed proxy is left in that state.
C13_CleanIdempotent ==
  /\ clean_transport(Cleaned) = Cleaned
  /\ Cleaned.trans = NoTrans
  /\ Cleaned.src = NoSource
  /\ Cleaned.inp = <<>>
  /\ Cleaned.outp = <<>>
  /\ trans.live => Cleaned.mem = <<>> /\ ~Cleaned.os.wfd_open
  /\ ~trans.live => Cleaned = World
  /\ (ncall.ev = "destroy" /\ ncall.cause # "fault") =>
       /\ trans = NoTrans
       /\ rtsocket_source = NoSource
       /\ in_ports = <<>>
       /\ out_ports = <<>>

\* a transport event has run the clean on an attached transport and attached
\* a new one, which the next clean has to release
C13_Witness ==
  /\ ncall.ev = "transport"
  /\ ncall.n = 1
  /\ trans.live
  /\ rtsocket_source.live
  /\ os.wfd_open
  /\ mem_ids = <<>>
  /\ Cleaned # World
  /\ clean_transport(Cleaned) = Cleaned

\* ---------------------------------------------------------------- C14
\* the calls of the local graph's hooks among what the last event let out
HookCalls == SelectSeq(ncall.log, LAMBDA e : e.k = "hook")

\* C14: a wake that finds one PORT_REUSE_BUFFER{port, buffer} message in the
\* ring calls the reuse-buffer hook exactly once, with (port, buffer), when
\* the out_ports slot of that id has a local port bound; it makes at most one
\* such call in every case, sends no done reply and emits no RT message.
C14_ReuseBufferOnce ==
  [][(/\ ncall'.ev = "rt_wake"
      /\ Len(trans.msgs) = 1
      /\ trans.msgs[1].type = "PORT_REUSE_BUFFER") =>
       LET msg == trans.msgs[1]
           bound == /\ msg.port_id < Len(out_ports)
                    /\ out_ports[msg.port_id + 1].port
       IN /\ Len(HookCalls') <= 1
          /\ bound => HookCalls' = <<Out("hook", msg.port_id, msg.buffer_id,
                                         "port_reuse_buffer")>>
          /\ ncall'.dones = <<>>
          /\ ncall'.sent = <<>>]_vars

\* the message addressed a bound port of the first transport of the session
\* and the hook was called once
C14_Witness ==
  /\ ncall.ev = "rt_wake"
  /\ ncall.n = 1
  /\ out_node = {}
  /\ HookCalls = <<Out("hook", 0, 2, "port_reuse_buffer")>>
  /\ ncall.log = <<Out("read", 8, 1, ""), Out("dispatch", 0, 2, "PORT_REUSE_BUFFER"),
                   Out("hook", 0, 2, "port_reuse_buffer")>>

\* ---------------------------------------------------------------- C15
\* the messages the last event fetched from the ring, in the order it did
Dispatched == SelectSeq(ncall.log, LAMBDA e : e.k = "dispatch")

\* C15: a wake with IN alone that returns leaves the ring empty and has
\* fetched the messages that were in it in the order they were appended; what
\* the handling of a message calls comes before the next message is fetched
\* (a PROCESS_INPUT or PROCESS_OUTPUT is followed at once by its call into
\* the graph, and every call follows the message it belongs to), whatever
\* the read of the counter returned.
C15_DrainsInOrder ==
  [][(ncall'.ev = "rt_wake" /\ ncall'.cause # "fault") =>
       LET log == ncall'.log IN
       /\ trans'.msgs = <<>>
       /\ ncall'.cond = {"IN"}
       /\ Dispatched' = [i \in 1..Len(trans.msgs) |->
                           Out("dispatch", trans.msgs[i].port_id,
                               trans.msgs[i].buffer_id, trans.msgs[i].type)]
       /\ log # <<>> /\ log[1].k = "read"
       /\ \A i \in 2..Len(log) :
            /\ log[i].k \in {"dispatch", "hook"}
            /\ log[i].k = "hook" =>
                 /\ log[i - 1].k = "dispatch"
                 /\ log[i].v = (CASE log[i - 1].v = "PROCESS_INPUT" -> "spa_graph_have_output"
                                  [] log[i - 1].v = "PROCESS_OUTPUT" -> "spa_graph_need_input"
                                  [] log[i - 1].v = "PORT_REUSE_BUFFER" -> "port_reuse_buffer"
                                  [] OTHER -> "none")
            /\ (log[i].k = "dispatch" /\ log[i].v \in {"PROCESS_INPUT", "PROCESS_OUTPUT"}) =>
                 (i < Len(log) /\ log[i + 1].k = "hook")]_vars

\* two different messages were drained by one wake whose counter read was short
C15_Witness ==
  /\ ncall.ev = "rt_wake"
  /\ ncall.n = 2
  /\ trans.msgs = <<>>
  /\ ncall.log = <<Out("read", 0, 0, ""),
                   Out("dispatch", 0, 2, "PORT_REUSE_BUFFER"),
                   Out("hook", 0, 2, "port_reuse_buffer"),
                   Out("dispatch", 0, 0, "PROCESS_OUTPUT"),
                   Out("hook", 0, 0, "spa_graph_need_input")>>

\* ---------------------------------------------------------------- C16
\* C16: a wake with ERR or HUP in its condition, with or without IN, fetches
\* no message from the ring and sends nothing; it only removes the RT source,
\* by a blocking invoke on the data loop. The transport with its ring, the
\* port arrays and their buffer tables, the registry, the write fd, the local
\* node and the descriptors of the process are as they were.
C16_ErrorWakeOnlyRemovesSource ==
  [][ncall'.ev = "rt_error" =>
       /\ ncall'.cond \cap {"ERR", "HUP"} # {}
       /\ ncall'.cause = "none"
       /\ rtsocket_source' = NoSource
       /\ ncall'.log = <<Out("invoke", 1, 0, "data_loop")>>
       /\ ncall'.dones = <<>>
       /\ ncall'.sent = <<>>
       /\ UNCHANGED <<trans, rtwritefd, mem_ids, in_ports, out_ports, out_node,
                      node, os, last_cmd>>]_vars

\* HUP came together with IN while a message was waiting in the ring
C16_Witness ==
  /\ ncall.ev = "rt_error"
  /\ ncall.cond = {"IN", "HUP"}
  /\ trans.live
  /\ trans.msgs # <<>>
  /\ os.wfd_open
  /\ rtsocket_source = NoSource
\* ---------------------------------------------------------------- C17
\* the texts a failed connect formats
ConnectTexts == {"connect failed", "connect_fd failed", "can't connect",
                 "can't connect: no memory"}

\* C17 as stated: a connect call that ends in ERROR stored a non-null error
\* text and returned a negative value.
C17_AsStated ==
  [][(rcall'.op \in {"connect", "connect_fd"} /\ state' = "ERROR")
       => error' # NULL /\ Negative(rcall'.ret)]_vars

\* C17: pw_remote_connect and pw_remote_connect_fd first move the remote to
\* CONNECTING with null error text (no notification when it is CONNECTING
\* already); when the protocol connect fails or the core proxy cannot be
\* created before the call returns, the remote then moves from CONNECTING to
\* ERROR, the stored and notified text is the formatted text, or null when
\* formatting failed, and the call returns a negative value; otherwise the
\* call returns 0 with the remote in CONNECTING and a null text. A connect
\* call returns a negative value exactly when the state at return is ERROR.
C17_ConnectOutcome ==
  [][rcall'.op \in {"connect", "connect_fd"} =>
       /\ rcall'.notified # <<>> <=> (state # "CONNECTING" \/ state' = "ERROR")
       /\ state # "CONNECTING"
            => rcall'.notified[1] = <<state, "CONNECTING", NULL>>
       /\ Negative(rcall'.ret) <=> state' = "ERROR"
       /\ state' = "ERROR"
            => /\ rcall'.notified[Len(rcall'.notified)]
                    = <<"CONNECTING", "ERROR", error'>>
               /\ error' \in ConnectTexts \cup {NULL}
       /\ state' # "ERROR"
            => state' = "CONNECTING" /\ error' = NULL /\ rcall'.ret = "0"]_vars

\* connect_fd could not create the core proxy: CONNECTING, then ERROR with the
\* text, and -ENOMEM
C17_Witness ==
  /\ rcall.op = "connect_fd" /\ rcall.ret = "-ENOMEM"
  /\ state = "ERROR" /\ error = "can't connect: no memory"
  /\ rcall.notified = <<<<"UNCONNECTED", "CONNECTING", NULL>>,
                        <<"CONNECTING", "ERROR", "can't connect: no memory">>>>

\* ---------------------------------------------------------------- C18
\* C18: the remote enters CONNECTED only by a done event with seq 0, with one
\* notification and a null text; a done event with another seq changes
\* neither the state nor the error text and notifies no state change; every
\* done event fires exactly one sync reply, carrying its seq, and nothing
\* else fires one.
C18_ConnectedByDoneZero ==
  [][/\ (state' = "CONNECTED" /\ state # "CONNECTED")
          => /\ rcall'.op = "done" /\ rcall'.sync = <<0>>
             /\ rcall'.notified = <<<<state, "CONNECTED", NULL>>>>
             /\ error' = NULL
     /\ (rcall'.op = "done" /\ rcall'.sync = <<0>>) => state' = "CONNECTED"
     /\ (rcall'.op = "done" /\ rcall'.sync # <<0>>)
          => state' = state /\ error' = error /\ rcall'.notified = <<>>
     /\ rcall'.op = "done"
          => Len(rcall'.sync) = 1 /\ rcall'.sync[1] \in {0} \cup Seqs
     /\ rcall'.op # "done" => rcall'.sync = <<>>]_vars

\* done(0) connected the remote and was surfaced as the sync reply 0
C18_Witness ==
  /\ rcall.op = "done" /\ rcall.sync = <<0>>
  /\ state = "CONNECTED" /\ error = NULL
  /\ rcall.notified = <<<<"CONNECTING", "CONNECTED", NULL>>>>

\* ---------------------------------------------------------------- C19
\* C19: an error event received in a state other than ERROR moves the remote
\* to ERROR, the one notification carries the text of the event, and that
\* text is the stored error text; in every state other than ERROR the stored
\* error text is null.
C19_ErrorTextStored ==
  [][/\ (rcall'.op = "error" /\ state # "ERROR")
          => /\ state' = "ERROR"
             /\ error' = rcall'.text
             /\ rcall'.notified = <<<<state, "ERROR", rcall'.text>>>>
     /\ state' # "ERROR" => error' = NULL]_vars

\* an error event whose text holds a conversion was stored as something else
C19_Witness ==
  /\ rcall.op = "error" /\ rcall.text \in ErrFormats
  /\ state = "ERROR" /\ error \in Expansions /\ error # rcall.text
  /\ rcall.notified = <<<<"CONNECTED", "ERROR", error>>>>

\* ---------------------------------------------------------------- C20
\* C20: pw_remote_disconnect and pw_remote_steal_fd leave the remote in
\* UNCONNECTED with a null error text, no proxy, no core proxy, no type and
\* no server info, and fire exactly one state-changed notification when the
\* state was not UNCONNECTED, none when it was; pw_remote_destroy calls
\* pw_remote_disconnect, once, exactly when the state is not UNCONNECTED.
C20_DisconnectCleans ==
  [][/\ rcall'.op \in {"disconnect", "steal_fd"}
          => /\ state' = "UNCONNECTED" /\ error' = NULL
             /\ proxy_list' = 0 /\ ~core_proxy' /\ types' = 0 /\ ~info'
             /\ rcall'.calls = <<"disconnect">>
             /\ rcall'.notified = IF state # "UNCONNECTED"
                                  THEN <<<<state, "UNCONNECTED", NULL>>>>
                                  ELSE <<>>
     /\ rcall'.op = "destroy"
          => /\ rcall'.calls = IF state # "UNCONNECTED" THEN <<"disconnect">>
                                                        ELSE <<>>
             /\ rcall'.notified = IF state # "UNCONNECTED"
                                  THEN <<<<state, "UNCONNECTED", NULL>>>>
                                  ELSE <<>>
     /\ rcall'.op \notin {"disconnect", "steal_fd", "destroy"}
          => rcall'.calls = <<>>]_vars

\* a connected remote was disconnected
C20_Witness ==
  /\ rcall.op = "disconnect" /\ rcall.calls = <<"disconnect">>
  /\ rcall.notified = <<<<"CONNECTED", "UNCONNECTED", NULL>>>>
  /\ state = "UNCONNECTED" /\ error = NULL
  /\ proxy_list = 0 /\ types = 0 /\ ~info /\ ~core_proxy
\* ---------------------------------------------------------------- C21
\* the regions other than i that hold the descriptor of region i
Siblings(i) == {k \in 1..Len(mem_ids) : k # i /\ mem_ids[k].fd = mem_ids[i].fd}

\* clear_memid of region i closes its descriptor exactly when no other region
\* holds it, and the descriptor it closes is open
ClearClosesLast(i) ==
  LET c == clear_memid(World, i) IN
  /\ c.mem[i].fd = -1
  /\ c.os.fd_open[mem_ids[i].fd] <=> Siblings(i) # {}
  /\ \A f \in Fds \ {mem_ids[i].fd} : c.os.fd_open[f] = os.fd_open[f]
  /\ ~c.os.bad_close

C21_OpenWhileHeld ==
  /\ ~os.bad_close
  /\ \A i \in 1..Len(mem_ids) :
       mem_ids[i].fd # -1 => os.fd_open[mem_ids[i].fd] /\ ClearClosesLast(i)
  /\ \A f \in Fds :
       os.fd_open[f] => \E i \in 1..Len(mem_ids) : mem_ids[i].fd = f
  /\ (ncall.ev = "transport" /\ ncall.n = 1 /\ ~os.crashed)
       => mem_ids = <<>> /\ \A f \in Fds : ~os.fd_open[f]

C22_PinnedOncePerEntry ==
  (UseBuffersReturned /\ ncall.cause \in {"none", "node"}) =>
    \A i \in 1..Len(mem_ids) :
      /\ \A e \in 1..Len(Table) : PinsOfEntries(<<Table[e]>>, i) <= 1
      /\ mem_ids[i].ref = EntriesPinning(i)

\* one entry whose buffer and whose MemFd data element name the same region:
\* the region is listed twice and its refcount is 2
C22_Witness ==
  /\ UseBuffersReturned /\ ncall.cause = "none" /\ ncall.n = 1
  /\ Len(Table) = 1
  /\ \E i \in 1..Len(mem_ids) : Table[1].mem = <<i, i>> /\ mem_ids[i].ref = 2
\* ---------------------------------------------------------------- C23
\* C23: the RT source is gone before a teardown touches anything else, so
\* that the source is live only while the transport it was created for, its
\* port arrays and the write fd are; and a wake of the pump fetches no
\* PORT_REUSE_BUFFER message while an entry of a freed port array is linked
\* in the list it walks.
C23_PumpNeverOnFreed ==
  /\ Cleaned.src = NoSource
  /\ rtsocket_source.live =>
       /\ trans.live
       /\ os.wfd_open
       /\ Len(in_ports) = trans.max_input_ports
       /\ Len(out_ports) = trans.max_output_ports
  /\ (ncall.ev = "rt_wake"
      /\ \E k \in 1..Len(ncall.log) :
           ncall.log[k].k = "dispatch" /\ ncall.log[k].v = "PORT_REUSE_BUFFER")
       => out_node = {}

\* a wake handled a PORT_REUSE_BUFFER message while an entry of the port
\* array of the transport before was linked still
C23_Witness ==
  /\ ncall.ev = "rt_wake"
  /\ trans.live
  /\ out_node # {}
  /\ Dispatched # <<>>
  /\ Dispatched[1].v = "PORT_REUSE_BUFFER"
\* ---------------------------------------------------------------- C24
\* the port id of the last event names a slot of the array and a local port
\* is bound to the slot
BoundSlot ==
  /\ ncall.port < Len(Ports(World, ncall.d))
  /\ Ports(World, ncall.d)[ncall.port + 1].port

\* C24: every port_set_param(seq, dir, port) is answered by exactly one
\* done(seq, res); a port-update is sent, before the done, exactly when the
\* port names a bound slot and the local port_set_param returned a
\* non-negative result; when the port names no slot or an unbound one the
\* result is -EINVAL and the local node is not called.
C24_SetParamReplies ==
  ncall.ev = "port_set_param" =>
    /\ Len(ncall.dones) = 1
    /\ ncall.dones[1][1] = ncall.seq
    /\ IF BoundSlot /\ ~Negative(ncall.dones[1][2])
       THEN ncall.log = <<Out("port_update", ncall.port, 0, ncall.d),
                          Out("done", ncall.seq, 0, ncall.dones[1][2])>>
       ELSE ncall.log = <<Out("done", ncall.seq, 0, ncall.dones[1][2])>>
    /\ ~BoundSlot => ncall.dones[1][2] = "-EINVAL" /\ ncall.cause = "port"

\* a port_set_param for the port id one past the last slot ended the process
C24_Witness ==
  /\ ncall.ev = "port_set_param"
  /\ ncall.port = MaxPorts
  /\ ncall.cause = "fault"
  /\ ncall.dones = <<>>
  /\ os.crashed
\* ---------------------------------------------------------------- C25
\* what follows the fetch of a message in the log: the calls made for it
CallsFor(log, i) ==
  IF i < Len(log) /\ log[i + 1].k # "dispatch" THEN <<log[i + 1]>> ELSE <<>>

\* C25: in a wake that returns, whatever the state of the session, every
\* PROCESS_INPUT fetched is followed by exactly one spa_graph_have_output (on
\* the in-bound shim node), every PROCESS_OUTPUT by exactly one
\* spa_graph_need_input (on the out-bound one), and a message of an unknown
\* type by no call at all; the drain goes on to the last message after it,
\* and a wake that fetched unknown messages only changed nothing but the
\* ring.
C25_DispatchByType ==
  [][(ncall'.ev = "rt_wake" /\ ncall'.cause # "fault") =>
       LET log == ncall'.log IN
       /\ \A i \in 1..Len(log) :
            log[i].k = "dispatch" =>
              /\ log[i].v = "PROCESS_INPUT" =>
                   CallsFor(log, i) = <<Out("hook", 0, 0, "spa_graph_have_output")>>
              /\ log[i].v = "PROCESS_OUTPUT" =>
                   CallsFor(log, i) = <<Out("hook", 0, 0, "spa_graph_need_input")>>
              /\ log[i].v = "UNKNOWN" => CallsFor(log, i) = <<>>
       /\ \A i \in 2..Len(log) : log[i].k = "hook" => log[i - 1].k = "dispatch"
       /\ Len(Dispatched') = Len(trans.msgs)
       /\ trans'.msgs = <<>>
       /\ (\A i \in 1..Len(trans.msgs) : trans.msgs[i].type = "UNKNOWN") =>
            /\ trans' = [trans EXCEPT !.msgs = <<>>]
            /\ HookCalls' = <<>>
            /\ ncall'.dones = <<>> /\ ncall'.sent = <<>>
            /\ UNCHANGED <<rtwritefd, rtsocket_source, mem_ids, in_ports, out_ports,
                           out_node, node, os, last_cmd>>]_vars

\* an unknown message was skipped and the PROCESS_INPUT behind it handled
C25_Witness ==
  /\ ncall.ev = "rt_wake"
  /\ ncall.n = 2
  /\ trans.msgs = <<>>
  /\ ncall.log = <<Out("read", 8, 1, ""),
                   Out("dispatch", 0, 0, "UNKNOWN"),
                   Out("dispatch", 0, 0, "PROCESS_INPUT"),
                   Out("hook", 0, 0, "spa_graph_have_output")>>
\* ---------------------------------------------------------------- C26
\* C26: an add_mem with an id the registry holds leaves the registry as it
\* is, entry for entry (fd, flags, refcount, mapping); an add_mem with a new
\* id appends one entry with that id, the fd and flags of the event, refcount
\* 0, an empty map range and no mapping. Either way nothing is mapped,
\* nothing is sent and the rest of the session is as it was.
C26_AddMemFrame ==
  [][ncall'.ev = "add_mem" =>
       /\ IF find_mem(mem_ids, ncall'.n) # 0
          THEN mem_ids' = mem_ids
          ELSE /\ Len(mem_ids') = Len(mem_ids) + 1
               /\ SubSeq(mem_ids', 1, Len(mem_ids)) = mem_ids
               /\ LET m == mem_ids'[Len(mem_ids')] IN
                  /\ m.id = ncall'.n
                  /\ m.fd \in Fds /\ os'.fd_open[m.fd]
                  /\ m.flags \in MemFlags
                  /\ m.ref = 0
                  /\ m.map = PW_MAP_RANGE_INIT
                  /\ ~m.ptr
       /\ ncall'.dones = <<>> /\ ncall'.log = <<>>
       /\ os'.crashed = os.crashed /\ os'.bad_close = os.bad_close
       /\ os'.wfd_open = os.wfd_open
       /\ \A f \in Fds : os.fd_open[f] => os'.fd_open[f]
       /\ UNCHANGED <<trans, rtwritefd, rtsocket_source, in_ports, out_ports,
                      out_node, node, last_cmd>>]_vars

\* The id of the event is that of a region that is mapped and pinned, as no
\* region is when it is added: the event announced the id again, and the
\* region has the flags it was added with.
C26_Witness ==
  /\ ncall.ev = "add_mem"
  /\ \E i \in 1..Len(mem_ids) :
       /\ mem_ids[i].id = ncall.n
       /\ mem_ids[i].ptr
       /\ mem_ids[i].ref > 0
       /\ mem_ids[i].flags = 3
\* ---------------------------------------------------------------- C27
\* C27: a ClockUpdate command sends no reply and nothing else, and leaves the
\* session (interest mask, io slots, ring, registry, ports, local node) as it
\* is; a command other than Pause, Start and ClockUpdate is answered by
\* exactly one done(seq, -ENOTSUP), is not handed to the local node and
\* leaves the session as it is.
C27_OtherCommands ==
  [][/\ ncall'.ev = "ClockUpdate" =>
          /\ ncall'.log = <<>> /\ ncall'.dones = <<>> /\ ncall'.sent = <<>>
          /\ ncall'.cause = "none"
          /\ UNCHANGED <<trans, rtwritefd, rtsocket_source, mem_ids, in_ports,
                         out_ports, out_node, node, os, last_cmd>>
     /\ ncall'.ev = "Other" =>
          /\ ncall'.log = <<Out("done", ncall'.seq, 0, "-ENOTSUP")>>
          /\ ncall'.dones = <<<<ncall'.seq, "-ENOTSUP">>>>
          /\ ncall'.sent = <<>>
          /\ ncall'.cause = "unsupported"
          /\ UNCHANGED <<trans, rtwritefd, rtsocket_source, mem_ids, in_ports,
                         out_ports, out_node, node, os, last_cmd>>]_vars

\* a ClockUpdate after a Start: no reply, the mask and the io slots as Start
\* left them
C27_Witness ==
  /\ ncall.ev = "ClockUpdate"
  /\ ncall.log = <<>>
  /\ last_cmd = "Start"
  /\ Started
  /\ rtsocket_source.live
  /\ rtsocket_source.mask = {"IN", "ERR", "HUP"}
\* ---------------------------------------------------------------- C28
\* C28: a set_param(seq, id, flags, pod) event calls the set_param of the
\* local node, once, with the id and the flags of the event.
C28_SetParamForwarded ==
  ncall.ev = "set_param" =>
    ncall.log = <<Out("hook", ncall.port, ncall.n, "spa_node_set_param")>>

\* a set_param event on an attached session called nothing
C28_Witness ==
  /\ ncall.ev = "set_param"
  /\ ncall.port \in ParamIds
  /\ trans.live
  /\ ncall.log = <<>>
  /\ ncall.dones = <<>>
\* ---------------------------------------------------------------- C29
\* what an emit of msg lets out on a session whose write fd is fd
EmitLog(msg, fd) == <<Out("msg", 0, 0, msg), Out("write", fd, 1, "")>>

\* the session apart from what the last event let out
Session == <<trans, rtwritefd, rtsocket_source, mem_ids, in_ports, out_ports,
             out_node, node, os, last_cmd>>

\* C29: on an attached session every message appended to the outbound ring is
\* followed at once by one wake write of the counter 1 on the write fd, and
\* there is no wake write without a message before it; need_input of the local
\* node and process_output of the shim emit exactly one NEED_INPUT,
\* have_output and process_input exactly one HAVE_OUTPUT, and leave the
\* buffer tables, the io slots and the registry as they are; port_reuse_buffer
\* of the shim lets nothing out and changes nothing.
C29_EmitThenWake ==
  [][/\ \A i \in 1..Len(ncall'.log) :
          /\ ncall'.log[i].k = "msg" =>
               /\ i < Len(ncall'.log)
               /\ ncall'.log[i + 1] = Out("write", rtwritefd', 1, "")
          /\ ncall'.log[i].k = "write" => (i > 1 /\ ncall'.log[i - 1].k = "msg")
     /\ (ncall'.ev \in {"need_input", "process_output"} /\ ncall'.cause # "fault") =>
          /\ ncall'.log = EmitLog("NEED_INPUT", rtwritefd)
          /\ UNCHANGED Session
     /\ (ncall'.ev \in {"have_output", "process_input"} /\ ncall'.cause # "fault") =>
          /\ ncall'.log = EmitLog("HAVE_OUTPUT", rtwritefd)
          /\ UNCHANGED Session
     /\ ncall'.ev = "shim_reuse_buffer" =>
          /\ ncall'.log = <<>> /\ ncall'.sent = <<>> /\ ncall'.dones = <<>>
          /\ UNCHANGED Session]_vars

\* process_input of the shim emitted one HAVE_OUTPUT, then woke the server
C29_Witness ==
  /\ ncall.ev = "process_input"
  /\ trans.live
  /\ os.wfd_open
  /\ ncall.log = <<Out("msg", 0, 0, "HAVE_OUTPUT"), Out("write", rtwritefd, 1, "")>>
  /\ ncall.sent = <<"HAVE_OUTPUT">>
\* ---------------------------------------------------------------- C30
\* the ranges asked of mem_map: within the first page, at its start, in the
\* second page; less than a page, more than one
MapOffsets == {0, 64, 4160 + 8}
MapSizes == {24, 2 * 4096}

\* mem_map of region i, asked for (offset, size), when the mmap succeeds (ok)
\* or fails
MapsOnce(i, offset, size, ok) ==
  LET r == mem_map(World, i, offset, size, ok) IN
  IF mem_ids[i].ptr
  THEN /\ r.w = World
       /\ r.ptr = [null |-> FALSE, mem |-> i, start |-> mem_ids[i].map.start]
  ELSE IF MmapOk(World, mem_ids[i].fd, ok)
  THEN /\ r.w.mem[i].ptr
       /\ r.w.mem[i].map = pw_map_range_init(offset, size)
       /\ r.ptr = [null |-> FALSE, mem |-> i, start |-> offset % sc_pagesize]
       /\ \A k \in 1..Len(mem_ids) : k # i => r.w.mem[k] = mem_ids[k]
       /\ \A o2 \in MapOffsets, s2 \in MapSizes, ok2 \in BOOLEAN :
            mem_map(r.w, i, o2, s2, ok2) = r
  ELSE /\ ~r.w.mem[i].ptr
       /\ r.ptr = NullPtr
       /\ r.w.os = os

\* C30: in every reachable state and for every region, mem_map maps only when
\* the region is unmapped; on a mapped region it changes nothing and returns
\* the pointer of the mapping there is, whatever offset and size are asked
\* for; when the mmap fails the region stays unmapped and NULL is returned;
\* and mem_unmap leaves the region unmapped and is idempotent.
C30_OneMapping ==
  \A i \in 1..Len(mem_ids) :
    /\ \A offset \in MapOffsets, size \in MapSizes, ok \in BOOLEAN :
         MapsOnce(i, offset, size, ok)
    /\ ~mem_unmap(World, i).mem[i].ptr
    /\ mem_unmap(mem_unmap(World, i), i) = mem_unmap(World, i)
    /\ ~mem_ids[i].ptr => mem_unmap(World, i) = World

\* port_set_io mapped a region and gave the local node the io area in it
C30_Witness ==
  /\ ncall.ev = "port_set_io"
  /\ ncall.cause = "none"
  /\ ~node.io["out"].null
  /\ node.io["out"].valid
  /\ \E i \in 1..Len(mem_ids) :
       /\ node.io["out"].mem = i
       /\ mem_ids[i].ptr
       /\ mem_ids[i].map = pw_map_range_init(64, 24)
       /\ node.io["out"].start = 64

\* ---------------------------------------------------------------- C31
\* what port_set_io does with (d, port_id, memid) in the state there is, when
\* the mmap it may reach succeeds (ok) or fails
SetIoForwards(d, port_id, memid, ok) ==
  LET h == client_node_port_set_io(World, 11, d, port_id, memid, 64, 24, ok)
      max == IF d = "in" THEN trans.max_input_ports ELSE trans.max_output_ports
      i == find_mem(mem_ids, memid)
      r == mem_map(World, i, 64, 24, ok)
      forward == /\ port_id < max
                 /\ \/ memid = SPA_ID_INVALID
                    \/ i # 0 /\ ~r.ptr.null
  IN /\ ~h.w.os.crashed
     /\ \A k \in 1..Len(mem_ids) :
          /\ Len(h.w.mem) = Len(mem_ids)
          /\ h.w.mem[k].ref = mem_ids[k].ref
     /\ h.dones = <<>> /\ h.sent = <<>>
     /\ IF forward
        THEN /\ h.cause = "none"
             /\ h.w.node.io[d].valid
             /\ IF memid = SPA_ID_INVALID
                THEN h.w.node.io[d].null /\ h.w.node.io[d].size = 0
                ELSE /\ ~h.w.node.io[d].null
                     /\ h.w.node.io[d].mem = i
                     /\ h.w.node.io[d].start = r.ptr.start
                     /\ h.w.node.io[d].size = 24
                     /\ h.w.mem[i].ptr
        ELSE /\ h.cause \in {"port", "mem", "mmap"}
             /\ h.w.node = node
             /\ \A k \in 1..Len(mem_ids) :
                  /\ h.w.mem[k].id = mem_ids[k].id
                  /\ h.w.mem[k].fd = mem_ids[k].fd
                  /\ h.w.mem[k].ptr = mem_ids[k].ptr

\* C31: while a transport is attached, a port_set_io for any direction, port
\* id and memory id is forwarded to the local node exactly when the port id
\* is below the maximum of its direction and the memory id is INVALID (the
\* node is given null and size 0) or names a region that maps (the node is
\* given the mapped pointer and the size); otherwise the node and the
\* regions stay as they are; no refcount changes and the process goes on.
C31_SetIoForwards ==
  (trans.live /\ ~os.crashed) =>
    \A d \in Dirs, port_id \in PortIdVals, memid \in MemIdVals, ok \in BOOLEAN :
      SetIoForwards(d, port_id, memid, ok)

\* a port_set_io for a slot no local port is bound to ended the process
C31_Witness ==
  /\ ncall.ev = "port_set_io"
  /\ ncall.cause = "fault"
  /\ ncall.d = "in" /\ ncall.port = 0
  /\ os.crashed

\* ---------------------------------------------------------------- C32
\* the io area the local node holds for direction d lies in a region that is
\* mapped and whose fd is open
IoHeld(nd, mem, o, d) ==
  /\ ~nd.io[d].null
  /\ nd.io[d].valid
  /\ nd.io[d].mem \in 1..Len(mem)
  /\ mem[nd.io[d].mem].ptr
  /\ mem[nd.io[d].mem].fd \in Fds
  /\ o.fd_open[mem[nd.io[d].mem].fd]

\* C32: a port_use_buffers that returns, whatever buffers it clears and
\* installs, leaves every io area the local node holds inside a region that
\* is still the same entry, still mapped and with its fd still open.
C32_IoAreaStaysMapped ==
  [][(ncall'.ev = "port_use_buffers" /\ ~os'.crashed) =>
       \A d \in Dirs :
         IoHeld(node, mem_ids, os, d) =>
           /\ node'.io[d] = node.io[d]
           /\ IoHeld(node', mem_ids', os', d)
           /\ mem_ids'[node.io[d].mem].id = mem_ids[node.io[d].mem].id]_vars

\* a port_use_buffers that cleared the port's buffers left the local node
\* with an io area in a region that is unmapped and whose fd is closed
C32_Witness ==
  /\ ncall.ev = "port_use_buffers"
  /\ ncall.cause = "none"
  /\ ~os.crashed
  /\ ~node.io["out"].null
  /\ ~node.io["out"].valid
  /\ LET i == node.io["out"].mem IN
     /\ i \in 1..Len(mem_ids)
     /\ mem_ids[i].fd = -1
     /\ ~mem_ids[i].ptr
     /\ mem_ids[i].ref = 0
     /\ \A f \in Fds : ~os.fd_open[f]

\* ---------------------------------------------------------------- C33
MaxOf(d) == IF d = "in" THEN trans.max_input_ports ELSE trans.max_output_ports

\* the four port-addressed handlers reject (d, port_id): the session is as
\* it was, the local node and port are not called, and the events that carry
\* a seq are answered done(seq, -EINVAL)
PortRejected(d, port_id) ==
  /\ \A node_res \in Results, ub \in Outcomes :
       LET h == client_node_port_set_param(World, 11, d, port_id, node_res, ub) IN
       h.w = World /\ h.log = <<Out("done", 11, 0, "-EINVAL")>>
  /\ \A buffers \in {<<>>, <<PlainBuffer>>}, ub \in Outcomes :
       LET h == client_node_port_use_buffers(World, 11, d, port_id, buffers,
                                             0, "0", ub) IN
       h.w = World /\ h.log = <<Out("done", 11, 0, "-EINVAL")>>
  /\ \A memid \in MemIdVals, ok \in BOOLEAN :
       LET h == client_node_port_set_io(World, 11, d, port_id, memid, 64, 24, ok) IN
       h.w = World /\ h.log = <<>>
  /\ LET h == client_node_port_command(World, d, port_id) IN
     h.w = World /\ h.log = <<>>

\* C33: while a transport is attached, every port id at or above the maximum
\* of its direction is rejected by port_set_param, port_use_buffers,
\* port_set_io and port_command; the id equal to the maximum too.
C33_PortIdsBelowMax ==
  (trans.live /\ ~os.crashed) =>
    \A d \in Dirs, port_id \in PortIdVals :
      port_id >= MaxOf(d) => PortRejected(d, port_id)

\* a port_command for the port id equal to the maximum ended the process
C33_Witness ==
  /\ ncall.ev = "port_command"
  /\ ncall.port = MaxPorts
  /\ ncall.cause = "fault"
  /\ os.crashed

\* ---------------------------------------------------------------- C34
\* C34: a destroy of the proxy that finds the RT source registered removes
\* the source before it unmaps a buffer of a port: in what it does, the
\* invoke that removes the source comes before every munmap of an entry.
C34_SourceRemovedFirst ==
  [][(ncall'.ev = "destroy" /\ ~os'.crashed /\ rtsocket_source.live) =>
       LET log == ncall'.log IN
       \A i \in 1..Len(log), j \in 1..Len(log) :
         (log[i].k = "unmap" /\ log[j].k = "invoke") => j < i]_vars

\* a destroy unmapped the buffer of the output port and then removed the
\* source
C34_Witness ==
  /\ ncall.ev = "destroy"
  /\ ncall.n = 1
  /\ ~os.crashed
  /\ ncall.log = <<Out("unmap", 0, 0, "out"), Out("invoke", 1, 0, "data_loop")>>
  /\ rtsocket_source = NoSource
  /\ out_ports = <<>>

\* ---------------------------------------------------------------- C35
\* C35: a Start or Pause handled while the transport is attached and the RT
\* source has been removed returns, leaves the source removed and appends
\* nothing; and a Start or Pause that did set the mask found a source.
C35_CommandsFindSource ==
  [][ncall'.ev \in {"Start", "Pause"} =>
       /\ (trans.live /\ ~rtsocket_source.live) =>
             /\ ~os'.crashed
             /\ ncall'.cause # "fault"
             /\ rtsocket_source' = NoSource
             /\ trans'.live
       /\ rtsocket_source'.live => rtsocket_source.live]_vars

\* a Start handled after an ERR/HUP wake had removed the source ended the
\* process in pw_loop_update_io
C35_Witness ==
  /\ ncall.ev = "Start"
  /\ ncall.cause = "fault"
  /\ os.crashed
  /\ ncall.dones = <<>>
  /\ ncall.sent = <<>>

\* ---------------------------------------------------------------- C36
\* the events of the local node that remote.c listens to from export onwards
NodeEvents == {"need_input", "have_output"}

\* C36: a need_input or have_output of the local node lets a message and a
\* wake write out only when a transport is attached; without a transport it
\* lets nothing out, changes nothing and returns.
C36_EmitsOnlyAttached ==
  [][ncall'.ev \in NodeEvents =>
       /\ ncall'.log # <<>> => trans.live
       /\ ~trans.live =>
            /\ ncall'.log = <<>>
            /\ ncall'.cause # "fault"
            /\ UNCHANGED Session]_vars

\* a need_input of the local node before the first transport event ended the
\* process in the ring append
C36_Witness ==
  /\ ncall.ev = "need_input"
  /\ ncall.cause = "fault"
  /\ os.crashed
  /\ ncall.sent = <<>>
  /\ ncall.log = <<>>

\* ---------------------------------------------------------------- C37
\* what the handler of cmd does in the state there is when the local node
\* answers res: the mask, the io slots and the RT message are those of the
\* command, and the answer shows in the done alone
ResultIgnored(cmd, res) ==
  LET h == client_node_command(World, 11, cmd, res)
      h0 == client_node_command(World, 11, cmd, "0")
  IN /\ h.w = h0.w
     /\ h.sent = h0.sent
     /\ ~h.w.os.crashed
     /\ h.w.src.mask = IF cmd = "Start" THEN {"IN", "ERR", "HUP"} ELSE {"ERR", "HUP"}
     /\ cmd = "Start" =>
          /\ Len(h.w.trans.inputs) = trans.max_input_ports
          /\ \A i \in 1..trans.max_input_ports : h.w.trans.inputs[i] = "NEED_BUFFER"
     /\ h.log = (IF cmd = "Start" THEN EmitLog("NEED_INPUT", rtwritefd) ELSE <<>>)
                \o <<Out("done", 11, 0, res)>>

\* C37: while a transport is attached and its RT source registered, a Start
\* leaves the mask {IN, ERR, HUP}, every input io slot NEED_BUFFER and one
\* NEED_INPUT with its wake write before done(seq, res), and a Pause leaves
\* the mask {ERR, HUP} before done(seq, res), whether the local node answers
\* 0 or a negative res; and a Start or Pause the node has rejected left the
\* session that way, with the negative res in its one done.
C37_ResultIgnored ==
  /\ (trans.live /\ rtsocket_source.live /\ ~os.crashed) =>
       \A cmd \in {"Start", "Pause"}, res \in Results : ResultIgnored(cmd, res)
  /\ (ncall.ev \in {"Start", "Pause"} /\ ncall.cause = "node") =>
       /\ rtsocket_source.live
       /\ rtsocket_source.mask = IF ncall.ev = "Start" THEN {"IN", "ERR", "HUP"}
                                                        ELSE {"ERR", "HUP"}
       /\ ncall.ev = "Start" => Started /\ ncall.sent = <<"NEED_INPUT">>
       /\ ncall.ev = "Pause" => ncall.sent = <<>>
       /\ Len(ncall.dones) = 1
       /\ ncall.dones[1][1] = ncall.seq
       /\ Negative(ncall.dones[1][2])
       /\ ncall.log[Len(ncall.log)] = Out("done", ncall.seq, 0, ncall.dones[1][2])

\* a Start the local node rejected with -EIO enabled IN, wrote NEED_BUFFER and
\* emitted NEED_INPUT before its done
C37_Witness ==
  /\ ncall.ev = "Start"
  /\ ncall.cause = "node"
  /\ Started
  /\ rtsocket_source.mask = {"IN", "ERR", "HUP"}
  /\ ncall.log = <<Out("msg", 0, 0, "NEED_INPUT"), Out("write", rtwritefd, 1, ""),
                   Out("done", ncall.seq, 0, "-EIO")>>

\* ---------------------------------------------------------------- C38
\* the slot (d, port_id) exists and no local port is bound to it
Unbound(d, port_id) ==
  /\ port_id < MaxOf(d)
  /\ ~Ports(World, d)[port_id + 1].port

\* port_set_param rejects an unbound slot: done(seq, -EINVAL), nothing else
SetParamRejects(d, port_id) ==
  \A node_res \in Results, ub \in Outcomes :
    LET h == client_node_port_set_param(World, 11, d, port_id, node_res, ub) IN
    h.w = World /\ h.log = <<Out("done", 11, 0, "-EINVAL")>>

\* the other three handlers return on an unbound slot without a call of the
\* local node or port and without a change of the session
OthersReject(d, port_id) ==
  /\ \A buffers \in {<<>>, <<PlainBuffer>>}, node_res \in Results, ub \in Outcomes :
       LET h == client_node_port_use_buffers(World, 11, d, port_id, buffers,
                                             0, node_res, ub) IN
       /\ ~h.w.os.crashed
       /\ h.w = World
       /\ \A i \in 1..Len(h.log) : h.log[i].k = "done"
  /\ \A memid \in MemIdVals, ok \in BOOLEAN :
       LET h == client_node_port_set_io(World, 11, d, port_id, memid, 64, 24, ok) IN
       ~h.w.os.crashed /\ h.w.node = node /\ h.log = <<>>
  /\ LET h == client_node_port_command(World, d, port_id) IN
     ~h.w.os.crashed /\ h.w = World /\ h.log = <<>>

\* C38: while a transport is attached, every event addressed to a slot that
\* exists and has no local port bound is rejected without a call of the local
\* node or port: by port_set_param with done(seq, -EINVAL), and by
\* port_use_buffers, port_set_io and port_command likewise.
C38_UnboundRejected ==
  (trans.live /\ ~os.crashed) =>
    \A d \in Dirs, port_id \in PortIdVals :
      Unbound(d, port_id) => SetParamRejects(d, port_id) /\ OthersReject(d, port_id)

\* a port_command for input slot 0, which no local port is bound to, ended
\* the process in pw_port_send_command
C38_Witness ==
  /\ ncall.ev = "port_command"
  /\ ncall.d = "in"
  /\ ncall.port = 0
  /\ 0 \notin NodePorts["in"]
  /\ ncall.cause = "fault"
  /\ os.crashed

\* ---------------------------------------------------------------- C39
\* a request that names memory id m, on the output port, fails as unknown
FailsUnknown(m) ==
  /\ \A ub \in Outcomes :
       LET h == client_node_port_use_buffers(World, 11, "out", 0,
                                             <<[PlainBuffer EXCEPT !.mem_id = m]>>,
                                             0, "0", ub) IN
       h.cause = "mem" /\ h.dones = <<<<11, "-EINVAL">>>>
  /\ \A ok \in BOOLEAN :
       LET h == client_node_port_set_io(World, 11, "out", 0, m, 64, 24, ok) IN
       h.cause = "mem" /\ h.w = World

\* a memory id that is not registered fails as unknown in a buffer or io
\* request, and is found once add_mem has added it
UnknownUntilAdded ==
  (trans.live /\ ~os.crashed /\ Resolves("out", 0)) =>
    \A m \in MemIds :
      find_mem(mem_ids, m) = 0 =>
        /\ FailsUnknown(m)
        /\ \A fd \in Fds, flags \in MemFlags :
             find_mem(client_node_add_mem(World, m, fd, flags).mem, m) # 0

\* C39: the first transport event of a session leaves the registry as it is,
\* every region registered and its fd open; a transport event on an attached
\* session leaves the registry empty and every fd of it closed, so that no
\* earlier memory id is found; and an id that is not registered fails as
\* unknown in a buffer or io request until add_mem adds it again.
C39_RegistryOverTransport ==
  /\ []UnknownUntilAdded
  /\ [][(ncall'.ev = "transport" /\ ~os'.crashed) =>
          IF ~trans.live
          THEN /\ mem_ids' = mem_ids
               /\ os'.fd_open = os.fd_open
               /\ \A m \in MemIds : find_mem(mem_ids', m) = find_mem(mem_ids, m)
          ELSE /\ mem_ids' = <<>>
               /\ \A f \in Fds : ~os'.fd_open[f]
               /\ \A m \in MemIds : find_mem(mem_ids', m) = 0]_vars

\* a transport event on an attached session emptied a registry that held a
\* region an io area was bound in
C39_Witness ==
  /\ ncall.ev = "transport"
  /\ ncall.n = 1
  /\ trans.live
  /\ mem_ids = <<>>
  /\ \A f \in Fds : ~os.fd_open[f]
  /\ ~node.io["out"].null
  /\ FailsUnknown(5)

\* ---------------------------------------------------------------- C40
\* C40: while the main thread is inside the Start handler, between its
\* enabling of IN on the RT source and the end of its writes of NEED_BUFFER
\* and its NEED_INPUT, the data loop dispatches no message of the ring.
C40_StartNotInterleaved ==
  [][(ncall'.ev = "rt_wake" /\ ~MainIdle) =>
       \A i \in 1..Len(ncall'.log) : ncall'.log[i].k # "dispatch"]_vars

\* the pump dispatched a PROCESS_INPUT message and called into the graph
\* after the Start handler had enabled IN and before it wrote the io slots
C40_Witness ==
  /\ ncall.ev = "rt_wake"
  /\ last_cmd = "Starting"
  /\ ~os.crashed
  /\ "IN" \in rtsocket_source.mask
  /\ trans.inputs # <<>>
  /\ trans.inputs[1] # "NEED_BUFFER"
  /\ Dispatched # <<>>
  /\ Dispatched[1].v = "PROCESS_INPUT"
  /\ \E i \in 1..Len(ncall.log) : ncall.log[i].k = "hook"

====
